---------------------------- MODULE Spec2Model ----------------------------
(***************************************************************************)
(* A model of the queue + semaphore + thread engine of asynchrony-lib:     *)
(*   simple_worker    one deque, one semaphore, one consumer jthread       *)
(*   simple_pool      one deque, one semaphore, N consumer jthreads        *)
(*   basic_pool       the same, with the emptiness test outside the lock   *)
(*   roundrobin_pool  N simple_workers behind an atomic routing counter    *)
(*   periodic_worker  one semaphore used as a timer, one jthread           *)
(* of the lock-guarded resource_pool, and of the scope guard defer.        *)
(*                                                                         *)
(* Every thread is cut into steps at its accesses to shared state: a step  *)
(* is one lock acquisition, one critical section, one semaphore operation  *)
(* or one read of the stop token.  The variables named like members of    *)
(* the classes are those members; issued, appended, removed, delivered    *)
(* and route are history variables that only record what happened.        *)
(***************************************************************************)
EXTENDS Integers, Sequences, FiniteSets

\* ---------------------------------------------------------------- bounds
\* Worker count of a pool (the template parameter N of the two pools).
NumWorkers == 2
\* Number of threads that call queue().
NumProducers == 2
\* Total number of queue() calls made in one run.
MaxItems == 2
\* Number of callback invocations a periodic_worker makes before its teardown.
MaxTicks == 2
\* Number of threads that use one resource_pool.
NumClients == 2
\* Number of resources created for one resource_pool.
MaxResources == 2
\* Total number of resource_pool calls made in one run.
MaxOps == 4
\* Number of defer objects declared in one run.
MaxDefers == 3

\* ------------------------------------------------------ program constants
\* std::chrono::milliseconds signalWaitInterval {1500}
SteadyInterval == 1500
\* signalWaitInterval = std::chrono::milliseconds(0) in the destructors
ZeroInterval == 0
\* the empty std::optional<T> returned by getNextItem
NoItem == 0
\* std::counting_semaphore<512> signal: the greatest value its counter may take
LeastMaxValue == 512

VARIABLES
    component,           \* the class this run constructs
    feeders,             \* how many producer threads this run has
    backlog,             \* how many queue() calls were completed before the run
    items,               \* std::deque<T> items, one per queue
    items_mutex,         \* std::shared_mutex items_mutex: the thread holding it
    signal,              \* std::counting_semaphore signal: its counter
    signalWaitInterval,  \* std::chrono::milliseconds signalWaitInterval
    queueCounter,        \* queueCounter of simple_worker / simple_pool
    rr_queueCounter,     \* std::atomic_uint64_t queueCounter of roundrobin_pool
    workersSize,         \* roundrobin_pool::workersSize
    pc,                  \* position of each consumer thread
    item,                \* the std::optional<T> a consumer holds
    stop,                \* stop state of each jthread (st.stop_requested())
    waitWith,            \* interval the consumer's current wait was begun with
    ppc,                 \* position of each producer thread inside queue()
    pitem,               \* the item a producer is queueing
    pidx,                \* the worker index a producer's call was routed to
    dpc,                 \* position of the thread running the destructor
    didx,                \* loop index of the destructor over the workers
    issued,              \* history: number of queue() calls begun
    appended,            \* history: per queue, the items in append order
    removed,             \* history: per queue, the items in removal order
    delivered,           \* history: per consumer, the items given to callback
    route,               \* history: per item, the worker index it was routed to
    faulted,             \* history: the items (ticks) on which the callback raised
    invokePeriod,        \* periodic_worker::invokePeriod
    invokeCounter,       \* periodic_worker::invokeCounter
    invoked,             \* history: callback invocations of the periodic_worker
    _pool,               \* resource_pool::_pool
    _poolLock,           \* resource_pool::_poolLock: <<owning thread, depth>>
    cpc,                 \* position of each client thread of the resource_pool
    carg,                \* the item a client passes to checkin
    cref,                \* the T&& a client's checkout() returned: <<the item that
                         \* was in the slot it names, the number of the checkout>>
    cheld,               \* the items a client holds
    cresult,             \* what a client's last call gave back
    created,             \* history: number of resources created so far
    ops,                 \* history: number of resource_pool calls begun
    checkins,            \* history: number of completed checkin calls
    checkouts,           \* history: number of successful checkout calls
    stored,              \* history: the items in the order they were checked in
    handed,              \* history: the slots in the order checkout removed them
    received,            \* history: what the caller got from each checkout
    lastOp,              \* history: the last call that ran its critical section
    pairOf,              \* history: per client, the pair of calls it just made
    defers,              \* per defer object declared: how often its callback
                         \* has run and how its scope was left
    dstack,              \* the defer objects alive, the innermost scope last
    dmode                \* what the thread that declares them is doing

vars == <<component, feeders, items, items_mutex, signal, signalWaitInterval,
          queueCounter, rr_queueCounter, workersSize, pc, item, stop, waitWith,
          ppc, pitem, pidx, dpc, didx, issued, appended, removed, delivered,
          route, backlog, faulted, invokePeriod, invokeCounter, invoked,
          _pool, _poolLock, cpc, carg, cref, cheld, cresult, created, ops,
          checkins, checkouts, stored, handed, received, lastOp, pairOf,
          defers, dstack, dmode>>

queueVars == <<items, items_mutex, signal, signalWaitInterval, queueCounter>>
rrVars == <<rr_queueCounter, workersSize>>
consumerVars == <<pc, item, stop, waitWith>>
producerVars == <<ppc, pitem, pidx>>
dtorVars == <<dpc, didx>>
historyVars == <<issued, appended, removed, delivered, route>>
runVars == <<component, feeders, backlog>>
periodicVars == <<invokePeriod, invokeCounter, invoked>>
resourceVars == <<_pool, _poolLock, cpc, carg, cref, cheld, cresult>>
resourceHistory == <<created, ops, checkins, checkouts, stored, handed,
                     received, lastOp, pairOf>>
\* The variables of the components that the queue engine is not part of.
deferVars == <<defers, dstack, dmode>>
asideVars == <<periodicVars, resourceVars, resourceHistory, deferVars>>

\* ------------------------------------------------------------- helpers
Producers == 1 .. NumProducers
Workers == 0 .. (NumWorkers - 1)
Items == 1 .. MaxItems
Free == <<"none", 0>>
Producer(p) == <<"producer", p>>
Consumer(c) == <<"consumer", c>>
\* The routing history after item i has been handed to worker w.
Routed(i, w) ==
    [j \in DOMAIN route \cup {i} |-> IF j = i THEN w ELSE route[j]]

Range(s) == {s[k] : k \in DOMAIN s}
IsPrefix(s, t) == Len(s) <= Len(t) /\ \A k \in 1 .. Len(s) : s[k] = t[k]
NoDuplicates(s) == \A j, k \in DOMAIN s : j # k => s[j] # s[k]

\* What is read from a slot of a deque that holds no element: one whose
\* element pop_front() has destroyed, or the front of an empty deque.
Destroyed == -1

\* The queues and consumer threads of a component.  A periodic_worker has no
\* queue: index 0 is where its one semaphore is kept.
QueuesOf(comp) ==
    CASE comp = "roundrobin_pool" -> 0 .. (NumWorkers - 1)
      [] comp \in {"resource_pool", "defer"} -> {}
      [] OTHER -> {0}
ThreadsOf(comp) ==
    CASE comp \in {"simple_worker", "periodic_worker"} -> {0}
      [] comp \in {"resource_pool", "defer"} -> {}
      [] OTHER -> 0 .. (NumWorkers - 1)

\* The threads that use a resource_pool; NoClient stands for no thread.
Clients == 1 .. NumClients
NoClient == 0
\* _poolLock held by nobody.
Unowned == <<NoClient, 0>>
\* No pair of calls recorded for a client.
NoPair == <<"none", NoItem, 0, 0>>
\* The intervals a wait can be begun with.
Intervals == {ZeroInterval, SteadyInterval}

\* The first b items, in the order they were queued.
Queued(b) == [i \in 1 .. b |-> i]

\* The queue engine of `comp` with queues Q, consumer threads T and f
\* producer threads, after b queue() calls have been completed and before
\* its consumer threads have taken a step.
EngineOf(comp, f, b, Q, T) ==
    /\ component = comp
    /\ feeders = f
    /\ backlog = b
    /\ items = [q \in Q |-> Queued(b)]
    /\ items_mutex = [q \in Q |-> Free]
    /\ signal = [q \in Q |-> b]
    /\ signalWaitInterval = [q \in Q |-> SteadyInterval]
    /\ queueCounter = [q \in Q |-> b]
    /\ rr_queueCounter = 0
    /\ workersSize = IF comp = "roundrobin_pool" THEN Cardinality(T) ELSE 0
    /\ pc = [c \in T |-> "loop"]
    /\ item = [c \in T |-> NoItem]
    /\ stop = [c \in T |-> FALSE]
    /\ waitWith = [c \in T |-> SteadyInterval]
    /\ ppc = [p \in Producers |-> "idle"]
    /\ pitem = [p \in Producers |-> NoItem]
    /\ pidx = [p \in Producers |-> 0]
    /\ dpc = "none"
    /\ didx = 0
    /\ issued = b
    /\ appended = [q \in Q |-> Queued(b)]
    /\ removed = [q \in Q |-> <<>>]
    /\ delivered = [c \in T |-> <<>>]
    /\ route = [i \in 1 .. b |-> 0]
    /\ faulted = {}

\* The queue engine of `comp` with the worker count its template parameter
\* gives it.
EngineAt(comp, f, b) == EngineOf(comp, f, b, QueuesOf(comp), ThreadsOf(comp))

\* The members of a periodic_worker constructed with `interval`.
PeriodicAt(interval) ==
    /\ invokePeriod = interval
    /\ invokeCounter = 0
    /\ invoked = 0

\* A default-constructed resource_pool and its client threads.
ResourceAt ==
    /\ _pool = <<>>
    /\ _poolLock = Unowned
    /\ cpc = [t \in Clients |-> "idle"]
    /\ carg = [t \in Clients |-> NoItem]
    /\ cref = [t \in Clients |-> <<NoItem, 0>>]
    /\ cheld = [t \in Clients |-> {}]
    /\ cresult = [t \in Clients |-> <<"none", 0>>]
    /\ created = 0
    /\ ops = 0
    /\ checkins = 0
    /\ checkouts = 0
    /\ stored = <<>>
    /\ handed = <<>>
    /\ received = <<>>
    /\ lastOp = <<NoClient, "none", NoItem, 0>>
    /\ pairOf = [t \in Clients |-> NoPair]

\* A thread that has declared no defer object yet.
DeferAt ==
    /\ defers = <<>>
    /\ dstack = <<>>
    /\ dmode = "run"

\* The components that are not the one this run constructs.
AsideAt == PeriodicAt(ZeroInterval) /\ ResourceAt /\ DeferAt

\* State right after construction of `comp`, with f producer threads.
Constructed(comp, f) == EngineAt(comp, f, 0) /\ AsideAt

\* A periodic_worker right after construction with one of the intervals.
InitPeriodic ==
    \E interval \in Intervals :
        /\ EngineAt("periodic_worker", NumProducers, 0)
        /\ PeriodicAt(interval)
        /\ ResourceAt
        /\ DeferAt

\* A resource_pool right after construction.
InitResource ==
    /\ EngineAt("resource_pool", NumProducers, 0)
    /\ PeriodicAt(ZeroInterval)
    /\ ResourceAt
    /\ DeferAt

\* A thread that has not declared a defer yet.
InitDefer == EngineAt("defer", NumProducers, 0) /\ AsideAt

\* Any component of the library right after construction.  The runs of
\* fewer producer threads are among those of NumProducers threads, as the
\* runs in which the other threads never call queue().
Init ==
    \/ \E comp \in {"simple_worker", "simple_pool", "roundrobin_pool"} :
           Constructed(comp, NumProducers)
    \/ InitPeriodic
    \/ InitResource
    \/ InitDefer

\* ===================================================== simple_worker
IsWorker == component \in {"simple_worker", "roundrobin_pool"}
\* c is the processor thread of a simple_worker of this run.
IsWorkerThread(c) == IsWorker /\ c \in DOMAIN pc

\* A caller's thread enters simple_worker::queue(item) of a lone worker.
SW_QueueCall(p) ==
    /\ component = "simple_worker"
    /\ p <= feeders
    /\ dpc = "none"
    /\ ppc[p] = "idle"
    /\ issued < backlog + MaxItems
    /\ issued' = issued + 1
    /\ pitem' = [pitem EXCEPT ![p] = issued + 1]
    /\ pidx' = [pidx EXCEPT ![p] = 0]
    /\ route' = Routed(issued + 1, 0)
    /\ ppc' = [ppc EXCEPT ![p] = "lock"]
    /\ UNCHANGED <<runVars, faulted, asideVars, queueVars, rrVars, consumerVars, dtorVars,
                   appended, removed, delivered>>

\* std::unique_lock<std::shared_mutex> myWriterLock(items_mutex);
SW_QueueLock(p) ==
    /\ IsWorker
    /\ ppc[p] = "lock"
    /\ items_mutex[pidx[p]] = Free
    /\ items_mutex' = [items_mutex EXCEPT ![pidx[p]] = Producer(p)]
    /\ ppc' = [ppc EXCEPT ![p] = "locked"]
    /\ UNCHANGED <<runVars, faulted, asideVars, items, signal, signalWaitInterval, queueCounter,
                   rrVars, consumerVars, pitem, pidx, dtorVars, historyVars>>

\* items.emplace_back(std::move(item)); queueCounter++; and the lock's scope ends.
SW_QueueEmplace(p) ==
    /\ IsWorker
    /\ ppc[p] = "locked"
    /\ items' = [items EXCEPT ![pidx[p]] = Append(@, pitem[p])]
    /\ queueCounter' = [queueCounter EXCEPT ![pidx[p]] = @ + 1]
    /\ items_mutex' = [items_mutex EXCEPT ![pidx[p]] = Free]
    /\ appended' = [appended EXCEPT ![pidx[p]] = Append(@, pitem[p])]
    /\ ppc' = [ppc EXCEPT ![p] = "release"]
    /\ UNCHANGED <<runVars, faulted, asideVars, signal, signalWaitInterval, rrVars, consumerVars,
                   pitem, pidx, dtorVars, issued, removed, delivered, route>>

\* signal.release(); and queue() returns.
SW_QueueRelease(p) ==
    /\ IsWorker
    /\ ppc[p] = "release"
    /\ signal' = [signal EXCEPT ![pidx[p]] = @ + 1]
    /\ ppc' = [ppc EXCEPT ![p] = "idle"]
    /\ pitem' = [pitem EXCEPT ![p] = NoItem]
    /\ pidx' = [pidx EXCEPT ![p] = 0]
    /\ UNCHANGED <<runVars, faulted, asideVars, items, items_mutex, signalWaitInterval, queueCounter,
                   rrVars, consumerVars, dtorVars, historyVars>>

\* while (!st.stop_requested()) ... signal.try_acquire_for(signalWaitInterval):
\* the loop test, and the wait beginning with the interval read at that moment.
SW_LoopTop(c) ==
    /\ IsWorkerThread(c)
    /\ pc[c] = "loop"
    /\ IF stop[c]
          THEN /\ pc' = [pc EXCEPT ![c] = "exited"]
               /\ UNCHANGED waitWith
          ELSE /\ pc' = [pc EXCEPT ![c] = "parked"]
               /\ waitWith' = [waitWith EXCEPT ![c] = signalWaitInterval[c]]
    /\ item' = [item EXCEPT ![c] = NoItem]
    /\ UNCHANGED <<runVars, faulted, asideVars, queueVars, rrVars, stop, producerVars, dtorVars,
                   historyVars>>

\* try_acquire_for returns true: the counter was positive and is decremented.
SW_Acquire(c) ==
    /\ IsWorkerThread(c)
    /\ pc[c] = "parked"
    /\ signal[c] > 0
    /\ signal' = [signal EXCEPT ![c] = @ - 1]
    /\ pc' = [pc EXCEPT ![c] = "acquired"]
    /\ UNCHANGED <<runVars, faulted, asideVars, items, items_mutex, signalWaitInterval, queueCounter,
                   rrVars, item, stop, waitWith, producerVars, dtorVars,
                   historyVars>>

\* try_acquire_for returns false: the interval ran out with the counter at 0;
\* getNextItem returns the empty optional.
SW_Timeout(c) ==
    /\ IsWorkerThread(c)
    /\ pc[c] = "parked"
    /\ signal[c] = 0
    /\ pc' = [pc EXCEPT ![c] = "loop"]
    /\ UNCHANGED <<runVars, faulted, asideVars, queueVars, rrVars, item, stop, waitWith,
                   producerVars, dtorVars, historyVars>>

\* if (!items.empty()) { popOnDestruct pod {items, items_mutex}; ...
\* read without the lock; an empty deque makes getNextItem return {}.
SW_CheckEmpty(c) ==
    /\ IsWorkerThread(c)
    /\ pc[c] = "acquired"
    /\ pc' = [pc EXCEPT ![c] = IF items[c] = <<>> THEN "loop" ELSE "pod"]
    /\ UNCHANGED <<runVars, faulted, asideVars, queueVars, rrVars, item, stop, waitWith,
                   producerVars, dtorVars, historyVars>>

\* popOnDestruct::pop(): std::unique_lock myWriterLock(parentMutex);
SW_PodLock(c) ==
    /\ IsWorkerThread(c)
    /\ pc[c] = "pod"
    /\ items_mutex[c] = Free
    /\ items_mutex' = [items_mutex EXCEPT ![c] = Consumer(c)]
    /\ pc' = [pc EXCEPT ![c] = "podlocked"]
    /\ UNCHANGED <<runVars, faulted, asideVars, items, signal, signalWaitInterval, queueCounter,
                   rrVars, item, stop, waitWith, producerVars, dtorVars,
                   historyVars>>

\* SW_PodFront with pop() returning while the lock is still held.
SW_PodFront_KeepLock(c) ==
    /\ IsWorkerThread(c)
    /\ pc[c] = "podlocked"
    /\ items[c] # <<>>
    /\ item' = [item EXCEPT ![c] = Head(items[c])]
    /\ removed' = [removed EXCEPT ![c] = Append(@, Head(items[c]))]
    /\ pc' = [pc EXCEPT ![c] = "poddtor"]
    /\ UNCHANGED <<runVars, faulted, asideVars, items, items_mutex, signal, signalWaitInterval,
                   queueCounter, rrVars, stop, waitWith, producerVars, dtorVars,
                   issued, appended, delivered, route>>

\* popOnDestruct::pop(): return std::move(parentDeque.front()); the lock is
\* released as pop() returns.  The slot stays in the deque.
SW_PodFront(c) ==
    /\ IsWorkerThread(c)
    /\ pc[c] = "podlocked"
    /\ items[c] # <<>>
    /\ item' = [item EXCEPT ![c] = Head(items[c])]
    /\ removed' = [removed EXCEPT ![c] = Append(@, Head(items[c]))]
    /\ items_mutex' = [items_mutex EXCEPT ![c] = Free]
    /\ pc' = [pc EXCEPT ![c] = "poddtor"]
    /\ UNCHANGED <<runVars, faulted, asideVars, items, signal, signalWaitInterval, queueCounter,
                   rrVars, stop, waitWith, producerVars, dtorVars, issued,
                   appended, delivered, route>>

\* ~popOnDestruct(): if (!parentDeque.empty()) parentDeque.pop_front();
\* executed WITHOUT the lock, here with no emplace_back overlapping it.
SW_PodDestruct(c) ==
    /\ IsWorkerThread(c)
    /\ pc[c] = "poddtor"
    /\ items' = [items EXCEPT ![c] = IF @ = <<>> THEN @ ELSE Tail(@)]
    /\ pc' = [pc EXCEPT ![c] = "stopcheck"]
    /\ UNCHANGED <<runVars, faulted, asideVars, items_mutex, signal, signalWaitInterval,
                   queueCounter, rrVars, item, stop, waitWith, producerVars,
                   dtorVars, historyVars>>

\* The outcomes of an unlocked pop_front() that overlaps an emplace_back() on
\* the same std::deque.  The two calls update the deque's bookkeeping (start,
\* finish, size, offset, the block map) without synchronisation, so either
\* update can overwrite the other:
\*   both        both updates land
\*   popLost     the removal is overwritten: the moved-from front slot stays
\*   appendLost  the append is overwritten: the new item is not in the deque
RaceOutcomes == {"both", "popLost", "appendLost"}

RacedDeque(d, x, o) ==
    CASE o = "both" -> Append(Tail(d), x)
      [] o = "popLost" -> Append(d, x)
      [] o = "appendLost" -> Tail(d)

\* ~popOnDestruct() of consumer c running at the same time as the
\* emplace_back of producer p, which holds the lock the consumer did not take.
SW_RacePopFront(c, p) ==
    /\ IsWorkerThread(c)
    /\ pc[c] = "poddtor"
    /\ ppc[p] = "locked"
    /\ pidx[p] = c
    /\ items[c] # <<>>
    /\ \E o \in RaceOutcomes :
           items' = [items EXCEPT ![c] = RacedDeque(@, pitem[p], o)]
    /\ queueCounter' = [queueCounter EXCEPT ![c] = @ + 1]
    /\ items_mutex' = [items_mutex EXCEPT ![c] = Free]
    /\ appended' = [appended EXCEPT ![c] = Append(@, pitem[p])]
    /\ ppc' = [ppc EXCEPT ![p] = "release"]
    /\ pc' = [pc EXCEPT ![c] = "stopcheck"]
    /\ UNCHANGED <<runVars, faulted, asideVars, signal, signalWaitInterval, rrVars, item, stop,
                   waitWith, pitem, pidx, dtorVars, issued, removed, delivered,
                   route>>

\* if (auto item = getNextItem(...); item && !st.stop_requested()) callback(*item);
\* with a stop requested the extracted item is dropped.
SW_StopCheck(c) ==
    /\ IsWorkerThread(c)
    /\ pc[c] = "stopcheck"
    /\ IF stop[c]
          THEN /\ pc' = [pc EXCEPT ![c] = "loop"]
               /\ UNCHANGED delivered
          ELSE /\ pc' = [pc EXCEPT ![c] = "callback"]
               /\ delivered' = [delivered EXCEPT ![c] = Append(@, item[c])]
    /\ UNCHANGED <<runVars, faulted, asideVars, queueVars, rrVars, item, stop, waitWith,
                   producerVars, dtorVars, issued, appended, removed, route>>

\* callback(*item) throws: the exception is discarded by catch (...) {} and
\* the thread goes back to the loop test.
SW_CallbackThrows(c) ==
    /\ IsWorkerThread(c)
    /\ pc[c] = "callback"
    /\ faulted' = faulted \cup {item[c]}
    /\ pc' = [pc EXCEPT ![c] = "loop"]
    /\ UNCHANGED <<runVars, asideVars, queueVars, rrVars, item, stop, waitWith,
                   producerVars, dtorVars, historyVars>>

\* callback(*item) ends and the thread goes back to the loop test.  Where the
\* items on which the callback raised are not being recorded, this step also
\* stands for the callback ending with an exception.
SW_CallbackReturns(c) ==
    /\ IsWorkerThread(c)
    /\ pc[c] = "callback"
    /\ pc' = [pc EXCEPT ![c] = "loop"]
    /\ UNCHANGED <<runVars, faulted, asideVars, queueVars, rrVars, item, stop, waitWith,
                   producerVars, dtorVars, historyVars>>

\* ~simple_worker(): signalWaitInterval = std::chrono::milliseconds(0);
\* The owner destroys the object once no queue() call is in progress.  A
\* roundrobin_pool has no destructor of its own: destroying it destroys the
\* elements of its workers vector one after the other (didx).
SW_DtorInterval ==
    /\ IsWorker
    /\ \/ dpc = "none" /\ \A p \in Producers : ppc[p] = "idle"
       \/ dpc = "interval"
    /\ didx \in DOMAIN pc
    /\ signalWaitInterval' = [signalWaitInterval EXCEPT ![didx] = ZeroInterval]
    /\ dpc' = "release"
    /\ UNCHANGED <<runVars, faulted, asideVars, items, items_mutex, signal, queueCounter, rrVars,
                   consumerVars, producerVars, didx, historyVars>>

\* SW_DtorRelease going on to request_stop() without having released the
\* signal.
SW_DtorRelease_NoRelease ==
    /\ IsWorker
    /\ dpc = "release"
    /\ dpc' = "reqstop"
    /\ UNCHANGED <<runVars, faulted, asideVars, queueVars, rrVars, consumerVars,
                   producerVars, didx, historyVars>>

\* ~simple_worker(): signal.release();
SW_DtorRelease ==
    /\ IsWorker
    /\ dpc = "release"
    /\ signal' = [signal EXCEPT ![didx] = @ + 1]
    /\ dpc' = "reqstop"
    /\ UNCHANGED <<runVars, faulted, asideVars, items, items_mutex, signalWaitInterval,
                   queueCounter, rrVars, consumerVars, producerVars, didx,
                   historyVars>>

\* SW_DtorRequestStop going on to join() without having requested the stop.
SW_DtorRequestStop_NoStop ==
    /\ IsWorker
    /\ dpc = "reqstop"
    /\ dpc' = "join"
    /\ UNCHANGED <<runVars, faulted, asideVars, queueVars, rrVars, consumerVars,
                   producerVars, didx, historyVars>>

\* ~simple_worker(): processor.request_stop()
SW_DtorRequestStop ==
    /\ IsWorker
    /\ dpc = "reqstop"
    /\ stop' = [stop EXCEPT ![didx] = TRUE]
    /\ dpc' = "join"
    /\ UNCHANGED <<runVars, faulted, asideVars, queueVars, rrVars, pc, item, waitWith,
                   producerVars, didx, historyVars>>

\* SW_DtorJoin with join() returning whether or not the thread has ended.
SW_DtorJoin_NoWait ==
    /\ IsWorker
    /\ dpc = "join"
    /\ didx' = didx + 1
    /\ dpc' = IF didx + 1 \in DOMAIN pc THEN "interval" ELSE "done"
    /\ UNCHANGED <<runVars, faulted, asideVars, queueVars, rrVars, consumerVars, producerVars,
                   historyVars>>

\* ~simple_worker(): processor.join() returns once the thread has ended; the
\* destructor returns, and the next element of the vector (if any) is destroyed.
SW_DtorJoin ==
    /\ IsWorker
    /\ dpc = "join"
    /\ pc[didx] = "exited"
    /\ didx' = didx + 1
    /\ dpc' = IF didx + 1 \in DOMAIN pc THEN "interval" ELSE "done"
    /\ UNCHANGED <<runVars, faulted, asideVars, queueVars, rrVars, consumerVars, producerVars,
                   historyVars>>

SW_Producer(p) ==
    \/ SW_QueueLock(p)
    \/ SW_QueueEmplace(p)
    \/ SW_QueueRelease(p)

\* The steps of the processor thread outside the callback.
SW_Loop(c) ==
    \/ SW_LoopTop(c)
    \/ SW_Acquire(c)
    \/ SW_Timeout(c)
    \/ SW_CheckEmpty(c)
    \/ SW_PodLock(c)
    \/ SW_PodFront(c)
    \/ SW_PodDestruct(c)
    \/ SW_StopCheck(c)

SW_Consumer(c) == SW_Loop(c) \/ SW_CallbackReturns(c)

SW_Destructor ==
    \/ SW_DtorInterval
    \/ SW_DtorRelease
    \/ SW_DtorRequestStop
    \/ SW_DtorJoin

\* A lone simple_worker that is never destroyed.
NextWorkerRun ==
    \/ \E p \in Producers : SW_QueueCall(p) \/ SW_Producer(p)
    \/ \E c \in Workers : SW_Consumer(c)
    \/ \E c \in Workers : \E p \in Producers : SW_RacePopFront(c, p)

\* A lone simple_worker from construction to the end of its destructor.
NextWorker == NextWorkerRun \/ SW_Destructor

InitWorker == \E f \in Producers : Constructed("simple_worker", f)

SpecWorker == InitWorker /\ [][NextWorker]_vars

\* A simple_worker whose callers have completed LeastMaxValue - 1 queue()
\* calls before the processor thread has been given a turn.
InitWorkerBacklog ==
    \E f \in Producers :
        /\ EngineAt("simple_worker", f, LeastMaxValue - 1)
        /\ PeriodicAt(ZeroInterval)
        /\ ResourceAt
        /\ DeferAt

\* The processor thread is slow: as far as a run with a backlog is followed,
\* a wait of the thread ends only while it has made fewer than MaxItems
\* callback invocations, or once a stop has been requested.
SW_SlowWaitMayEnd(c) ==
    (c \in DOMAIN pc /\ pc[c] = "parked") =>
        (Len(delivered[c]) < MaxItems \/ stop[c])

NextWorkerBacklog ==
    \/ \E p \in Producers : SW_QueueCall(p) \/ SW_Producer(p)
    \/ \E c \in Workers : SW_SlowWaitMayEnd(c) /\ SW_Consumer(c)
    \/ \E c \in Workers : \E p \in Producers : SW_RacePopFront(c, p)
    \/ SW_Destructor

SpecWorkerBacklog == InitWorkerBacklog /\ [][NextWorkerBacklog]_vars

\* ======================================================= simple_pool
\* c is one of the jthreads in simple_pool::workers.
IsPoolThread(c) == component = "simple_pool" /\ c \in DOMAIN pc

\* A caller's thread enters simple_pool::queue(item).
SP_QueueCall(p) ==
    /\ component = "simple_pool"
    /\ p <= feeders
    /\ dpc = "none"
    /\ ppc[p] = "idle"
    /\ issued < backlog + MaxItems
    /\ issued' = issued + 1
    /\ pitem' = [pitem EXCEPT ![p] = issued + 1]
    /\ pidx' = [pidx EXCEPT ![p] = 0]
    /\ route' = Routed(issued + 1, 0)
    /\ ppc' = [ppc EXCEPT ![p] = "lock"]
    /\ UNCHANGED <<runVars, faulted, asideVars, queueVars, rrVars, consumerVars, dtorVars,
                   appended, removed, delivered>>

\* std::unique_lock<std::shared_mutex> myWriterLock(items_mutex);
SP_QueueLock(p) ==
    /\ component = "simple_pool"
    /\ ppc[p] = "lock"
    /\ items_mutex[0] = Free
    /\ items_mutex' = [items_mutex EXCEPT ![0] = Producer(p)]
    /\ ppc' = [ppc EXCEPT ![p] = "locked"]
    /\ UNCHANGED <<runVars, faulted, asideVars, items, signal, signalWaitInterval, queueCounter,
                   rrVars, consumerVars, pitem, pidx, dtorVars, historyVars>>

\* SP_QueueEmplace with emplace_front in place of emplace_back.
SP_QueueEmplace_Front(p) ==
    /\ component = "simple_pool"
    /\ ppc[p] = "locked"
    /\ items' = [items EXCEPT ![0] = <<pitem[p]>> \o @]
    /\ items_mutex' = [items_mutex EXCEPT ![0] = Free]
    /\ appended' = [appended EXCEPT ![0] = Append(@, pitem[p])]
    /\ ppc' = [ppc EXCEPT ![p] = "release"]
    /\ UNCHANGED <<runVars, faulted, asideVars, signal, signalWaitInterval, queueCounter, rrVars,
                   consumerVars, pitem, pidx, dtorVars, issued, removed,
                   delivered, route>>

\* items.emplace_back(std::move(item)); and the lock's scope ends.
SP_QueueEmplace(p) ==
    /\ component = "simple_pool"
    /\ ppc[p] = "locked"
    /\ items' = [items EXCEPT ![0] = Append(@, pitem[p])]
    /\ items_mutex' = [items_mutex EXCEPT ![0] = Free]
    /\ appended' = [appended EXCEPT ![0] = Append(@, pitem[p])]
    /\ ppc' = [ppc EXCEPT ![p] = "release"]
    /\ UNCHANGED <<runVars, faulted, asideVars, signal, signalWaitInterval, queueCounter, rrVars,
                   consumerVars, pitem, pidx, dtorVars, issued, removed,
                   delivered, route>>

\* signal.release(); ++queueCounter; and queue() returns.
SP_QueueRelease(p) ==
    /\ component = "simple_pool"
    /\ ppc[p] = "release"
    /\ signal' = [signal EXCEPT ![0] = @ + 1]
    /\ queueCounter' = [queueCounter EXCEPT ![0] = @ + 1]
    /\ ppc' = [ppc EXCEPT ![p] = "idle"]
    /\ pitem' = [pitem EXCEPT ![p] = NoItem]
    /\ UNCHANGED <<runVars, faulted, asideVars, items, items_mutex, signalWaitInterval, rrVars,
                   consumerVars, pidx, dtorVars, historyVars>>

\* while (!st.stop_requested()) ... signal.try_acquire_for(signalWaitInterval)
SP_LoopTop(c) ==
    /\ IsPoolThread(c)
    /\ pc[c] = "loop"
    /\ IF stop[c]
          THEN /\ pc' = [pc EXCEPT ![c] = "exited"]
               /\ UNCHANGED waitWith
          ELSE /\ pc' = [pc EXCEPT ![c] = "parked"]
               /\ waitWith' = [waitWith EXCEPT ![c] = signalWaitInterval[0]]
    /\ item' = [item EXCEPT ![c] = NoItem]
    /\ UNCHANGED <<runVars, faulted, asideVars, queueVars, rrVars, stop, producerVars, dtorVars,
                   historyVars>>

\* SP_Acquire in a pool whose signal only thread NumWorkers - 1 can take.
SP_Acquire_OneTaker(c) ==
    /\ IsPoolThread(c)
    /\ c = NumWorkers - 1
    /\ pc[c] = "parked"
    /\ signal[0] > 0
    /\ signal' = [signal EXCEPT ![0] = @ - 1]
    /\ pc' = [pc EXCEPT ![c] = "acquired"]
    /\ UNCHANGED <<runVars, faulted, asideVars, items, items_mutex, signalWaitInterval, queueCounter,
                   rrVars, item, stop, waitWith, producerVars, dtorVars,
                   historyVars>>

\* try_acquire_for returns true.
SP_Acquire(c) ==
    /\ IsPoolThread(c)
    /\ pc[c] = "parked"
    /\ signal[0] > 0
    /\ signal' = [signal EXCEPT ![0] = @ - 1]
    /\ pc' = [pc EXCEPT ![c] = "acquired"]
    /\ UNCHANGED <<runVars, faulted, asideVars, items, items_mutex, signalWaitInterval, queueCounter,
                   rrVars, item, stop, waitWith, producerVars, dtorVars,
                   historyVars>>

\* try_acquire_for returns false; getNextItem returns the empty optional.
SP_Timeout(c) ==
    /\ IsPoolThread(c)
    /\ pc[c] = "parked"
    /\ signal[0] = 0
    /\ pc' = [pc EXCEPT ![c] = "loop"]
    /\ UNCHANGED <<runVars, faulted, asideVars, queueVars, rrVars, item, stop, waitWith,
                   producerVars, dtorVars, historyVars>>

\* getNextItem: std::unique_lock<std::shared_mutex> myWriterLock(items_mutex);
SP_Lock(c) ==
    /\ IsPoolThread(c)
    /\ pc[c] = "acquired"
    /\ items_mutex[0] = Free
    /\ items_mutex' = [items_mutex EXCEPT ![0] = Consumer(c)]
    /\ pc' = [pc EXCEPT ![c] = "locked"]
    /\ UNCHANGED <<runVars, faulted, asideVars, items, signal, signalWaitInterval, queueCounter,
                   rrVars, item, stop, waitWith, producerVars, dtorVars,
                   historyVars>>

\* SP_Extract without items.pop_front(): the front slot stays in the deque.
SP_Extract_NoPop(c) ==
    /\ IsPoolThread(c)
    /\ pc[c] = "locked"
    /\ items_mutex' = [items_mutex EXCEPT ![0] = Free]
    /\ IF items[0] # <<>>
          THEN /\ item' = [item EXCEPT ![c] = Head(items[0])]
               /\ removed' = [removed EXCEPT ![0] = Append(@, Head(items[0]))]
               /\ pc' = [pc EXCEPT ![c] = "stopcheck"]
          ELSE /\ pc' = [pc EXCEPT ![c] = "loop"]
               /\ UNCHANGED <<item, removed>>
    /\ UNCHANGED <<runVars, faulted, asideVars, items, signal, signalWaitInterval, queueCounter,
                   rrVars, stop, waitWith, producerVars, dtorVars, issued,
                   appended, delivered, route>>

\* A getNextItem that takes the front without testing items.empty(): on an
\* empty deque it reads a slot that holds no element.  What the code does
\* not do.
SP_Extract_NoEmptyCheck(c) ==
    /\ IsPoolThread(c)
    /\ pc[c] = "locked"
    /\ items_mutex' = [items_mutex EXCEPT ![0] = Free]
    /\ item' = [item EXCEPT ![c] =
                   IF items[0] # <<>> THEN Head(items[0]) ELSE Destroyed]
    /\ items' = [items EXCEPT ![0] = IF @ # <<>> THEN Tail(@) ELSE @]
    /\ removed' = [removed EXCEPT ![0] = Append(@, item'[c])]
    /\ pc' = [pc EXCEPT ![c] = "stopcheck"]
    /\ UNCHANGED <<runVars, faulted, asideVars, signal, signalWaitInterval, queueCounter, rrVars,
                   stop, waitWith, producerVars, dtorVars, issued, appended,
                   delivered, route>>

\* getNextItem under the lock: if (!items.empty()) { T item {std::move(
\* items.front())}; items.pop_front(); return item; } else return {};
\* the lock is released on return.
SP_Extract(c) ==
    /\ IsPoolThread(c)
    /\ pc[c] = "locked"
    /\ items_mutex' = [items_mutex EXCEPT ![0] = Free]
    /\ IF items[0] # <<>>
          THEN /\ item' = [item EXCEPT ![c] = Head(items[0])]
               /\ items' = [items EXCEPT ![0] = Tail(@)]
               /\ removed' = [removed EXCEPT ![0] = Append(@, Head(items[0]))]
               /\ pc' = [pc EXCEPT ![c] = "stopcheck"]
          ELSE /\ pc' = [pc EXCEPT ![c] = "loop"]
               /\ UNCHANGED <<item, items, removed>>
    /\ UNCHANGED <<runVars, faulted, asideVars, signal, signalWaitInterval, queueCounter, rrVars,
                   stop, waitWith, producerVars, dtorVars, issued, appended,
                   delivered, route>>

\* if (auto item = getNextItem(...); item && !st.stop_requested())
\*     callback(std::move(*item));
SP_StopCheck(c) ==
    /\ IsPoolThread(c)
    /\ pc[c] = "stopcheck"
    /\ IF stop[c]
          THEN /\ pc' = [pc EXCEPT ![c] = "loop"]
               /\ UNCHANGED delivered
          ELSE /\ pc' = [pc EXCEPT ![c] = "callback"]
               /\ delivered' = [delivered EXCEPT ![c] = Append(@, item[c])]
    /\ UNCHANGED <<runVars, faulted, asideVars, queueVars, rrVars, item, stop, waitWith,
                   producerVars, dtorVars, issued, appended, removed, route>>

\* callback(std::move(*item)) throws: the exception is discarded by
\* catch (...) {} and the thread goes back to the loop test.
SP_CallbackThrows(c) ==
    /\ IsPoolThread(c)
    /\ pc[c] = "callback"
    /\ faulted' = faulted \cup {item[c]}
    /\ pc' = [pc EXCEPT ![c] = "loop"]
    /\ UNCHANGED <<runVars, asideVars, queueVars, rrVars, item, stop, waitWith,
                   producerVars, dtorVars, historyVars>>

\* callback(std::move(*item)) ends and the thread goes back to the loop test.
\* Where the items on which the callback raised are not being recorded, this
\* step also stands for the callback ending with an exception.
SP_CallbackReturns(c) ==
    /\ IsPoolThread(c)
    /\ pc[c] = "callback"
    /\ pc' = [pc EXCEPT ![c] = "loop"]
    /\ UNCHANGED <<runVars, faulted, asideVars, queueVars, rrVars, item, stop, waitWith,
                   producerVars, dtorVars, historyVars>>

\* ~simple_pool(): signalWaitInterval = std::chrono::milliseconds(0);
SP_DtorInterval ==
    /\ component = "simple_pool"
    /\ dpc = "none"
    /\ \A p \in Producers : ppc[p] = "idle"
    /\ signalWaitInterval' = [signalWaitInterval EXCEPT ![0] = ZeroInterval]
    /\ dpc' = "release"
    /\ UNCHANGED <<runVars, faulted, asideVars, items, items_mutex, signal, queueCounter, rrVars,
                   consumerVars, producerVars, didx, historyVars>>

\* ~simple_pool(): for (auto& t : workers) { signal.release();
SP_DtorRelease ==
    /\ component = "simple_pool"
    /\ dpc = "release"
    /\ signal' = [signal EXCEPT ![0] = @ + 1]
    /\ dpc' = "reqstop"
    /\ UNCHANGED <<runVars, faulted, asideVars, items, items_mutex, signalWaitInterval,
                   queueCounter, rrVars, consumerVars, producerVars, didx,
                   historyVars>>

\* ~simple_pool(): t.request_stop()
SP_DtorRequestStop ==
    /\ component = "simple_pool"
    /\ dpc = "reqstop"
    /\ stop' = [stop EXCEPT ![didx] = TRUE]
    /\ dpc' = "join"
    /\ UNCHANGED <<runVars, faulted, asideVars, queueVars, rrVars, pc, item, waitWith,
                   producerVars, didx, historyVars>>

\* SP_DtorJoin with join() returning whether or not the thread has ended.
SP_DtorJoin_NoWait ==
    /\ component = "simple_pool"
    /\ dpc = "join"
    /\ didx' = didx + 1
    /\ dpc' = IF didx + 1 \in DOMAIN pc THEN "release" ELSE "done"
    /\ UNCHANGED <<runVars, faulted, asideVars, queueVars, rrVars, consumerVars,
                   producerVars, historyVars>>

\* ~simple_pool(): t.join(); } and the loop moves to the next thread.
SP_DtorJoin ==
    /\ component = "simple_pool"
    /\ dpc = "join"
    /\ pc[didx] = "exited"
    /\ didx' = didx + 1
    /\ dpc' = IF didx + 1 \in DOMAIN pc THEN "release" ELSE "done"
    /\ UNCHANGED <<runVars, faulted, asideVars, queueVars, rrVars, consumerVars, producerVars,
                   historyVars>>

SP_Producer(p) ==
    \/ SP_QueueLock(p)
    \/ SP_QueueEmplace(p)
    \/ SP_QueueRelease(p)

SP_Consumer(c) ==
    \/ SP_LoopTop(c)
    \/ SP_Acquire(c)
    \/ SP_Timeout(c)
    \/ SP_Lock(c)
    \/ SP_Extract(c)
    \/ SP_StopCheck(c)
    \/ SP_CallbackReturns(c)

\* The steps of a pool thread outside the callback.
SP_Loop(c) ==
    \/ SP_LoopTop(c)
    \/ SP_Acquire(c)
    \/ SP_Timeout(c)
    \/ SP_Lock(c)
    \/ SP_Extract(c)
    \/ SP_StopCheck(c)

SP_Destructor ==
    \/ SP_DtorInterval
    \/ SP_DtorRelease
    \/ SP_DtorRequestStop
    \/ SP_DtorJoin

\* A simple_pool that is never destroyed.
NextPoolRun ==
    \/ \E p \in Producers : SP_QueueCall(p) \/ SP_Producer(p)
    \/ \E c \in Workers : SP_Consumer(c)

\* A simple_pool from construction to the end of its destructor.
NextPool == NextPoolRun \/ SP_Destructor

InitPool == \E f \in Producers : Constructed("simple_pool", f)

SpecPool == InitPool /\ [][NextPool]_vars

\* ======================================================== basic_pool
\* c is one of the jthreads in basic_pool::workers.
IsBasicThread(c) == component = "basic_pool" /\ c \in DOMAIN pc

\* The stages of the destruction of a basic_pool at which its members
\* signalWaitInterval, items_mutex, items, signal and callback no longer
\* exist: members are destroyed in reverse order of declaration, and workers,
\* declared first, is destroyed last.
Released == component = "basic_pool" /\ dpc \in {"joining", "done"}

\* A caller's thread enters basic_pool::queue(item).
BP_QueueCall(p) ==
    /\ component = "basic_pool"
    /\ p <= feeders
    /\ dpc = "none"
    /\ ppc[p] = "idle"
    /\ issued < backlog + MaxItems
    /\ issued' = issued + 1
    /\ pitem' = [pitem EXCEPT ![p] = issued + 1]
    /\ pidx' = [pidx EXCEPT ![p] = 0]
    /\ route' = Routed(issued + 1, 0)
    /\ ppc' = [ppc EXCEPT ![p] = "lock"]
    /\ UNCHANGED <<runVars, faulted, asideVars, queueVars, rrVars, consumerVars, dtorVars,
                   appended, removed, delivered>>

\* std::unique_lock<std::shared_mutex> myWriterLock(items_mutex);
BP_QueueLock(p) ==
    /\ component = "basic_pool"
    /\ ppc[p] = "lock"
    /\ items_mutex[0] = Free
    /\ items_mutex' = [items_mutex EXCEPT ![0] = Producer(p)]
    /\ ppc' = [ppc EXCEPT ![p] = "locked"]
    /\ UNCHANGED <<runVars, faulted, asideVars, items, signal, signalWaitInterval, queueCounter,
                   rrVars, consumerVars, pitem, pidx, dtorVars, historyVars>>

\* items.emplace_back(std::move(item)); and the lock's scope ends.
BP_QueueEmplace(p) ==
    /\ component = "basic_pool"
    /\ ppc[p] = "locked"
    /\ items' = [items EXCEPT ![0] = Append(@, pitem[p])]
    /\ items_mutex' = [items_mutex EXCEPT ![0] = Free]
    /\ appended' = [appended EXCEPT ![0] = Append(@, pitem[p])]
    /\ ppc' = [ppc EXCEPT ![p] = "release"]
    /\ UNCHANGED <<runVars, faulted, asideVars, signal, signalWaitInterval, queueCounter, rrVars,
                   consumerVars, pitem, pidx, dtorVars, issued, removed,
                   delivered, route>>

\* signal.release(); ++queueCounter; and queue() returns.
BP_QueueRelease(p) ==
    /\ component = "basic_pool"
    /\ ppc[p] = "release"
    /\ signal' = [signal EXCEPT ![0] = @ + 1]
    /\ queueCounter' = [queueCounter EXCEPT ![0] = @ + 1]
    /\ ppc' = [ppc EXCEPT ![p] = "idle"]
    /\ pitem' = [pitem EXCEPT ![p] = NoItem]
    /\ UNCHANGED <<runVars, faulted, asideVars, items, items_mutex, signalWaitInterval, rrVars,
                   consumerVars, pidx, dtorVars, historyVars>>

\* while (!st.stop_requested()) ... signal.try_acquire_for(signalWaitInterval)
BP_LoopTop(c) ==
    /\ IsBasicThread(c)
    /\ pc[c] = "loop"
    /\ IF stop[c]
          THEN /\ pc' = [pc EXCEPT ![c] = "exited"]
               /\ UNCHANGED waitWith
          ELSE /\ pc' = [pc EXCEPT ![c] = "parked"]
               /\ waitWith' = [waitWith EXCEPT ![c] = signalWaitInterval[0]]
    /\ item' = [item EXCEPT ![c] = NoItem]
    /\ UNCHANGED <<runVars, faulted, asideVars, queueVars, rrVars, stop, producerVars, dtorVars,
                   historyVars>>

\* try_acquire_for returns true.
BP_Acquire(c) ==
    /\ IsBasicThread(c)
    /\ pc[c] = "parked"
    /\ signal[0] > 0
    /\ signal' = [signal EXCEPT ![0] = @ - 1]
    /\ pc' = [pc EXCEPT ![c] = "acquired"]
    /\ UNCHANGED <<runVars, faulted, asideVars, items, items_mutex, signalWaitInterval, queueCounter,
                   rrVars, item, stop, waitWith, producerVars, dtorVars,
                   historyVars>>

\* try_acquire_for returns false.
BP_Timeout(c) ==
    /\ IsBasicThread(c)
    /\ pc[c] = "parked"
    /\ signal[0] = 0
    /\ pc' = [pc EXCEPT ![c] = "loop"]
    /\ UNCHANGED <<runVars, faulted, asideVars, queueVars, rrVars, item, stop, waitWith,
                   producerVars, dtorVars, historyVars>>

\* if (!items.empty() && !st.stop_requested()), evaluated without the lock.
\* The stop state only ever goes from false to true, so that the two reads
\* give what one read of both at the time of the first gives.
BP_CheckEmpty(c) ==
    /\ IsBasicThread(c)
    /\ pc[c] = "acquired"
    /\ pc' = [pc EXCEPT ![c] =
                 IF items[0] # <<>> /\ ~stop[c] THEN "lock" ELSE "loop"]
    /\ UNCHANGED <<runVars, faulted, asideVars, queueVars, rrVars, item, stop, waitWith,
                   producerVars, dtorVars, historyVars>>

\* T item; { std::unique_lock<std::shared_mutex> myWriterLock(items_mutex);
BP_Lock(c) ==
    /\ IsBasicThread(c)
    /\ pc[c] = "lock"
    /\ items_mutex[0] = Free
    /\ items_mutex' = [items_mutex EXCEPT ![0] = Consumer(c)]
    /\ pc' = [pc EXCEPT ![c] = "locked"]
    /\ UNCHANGED <<runVars, faulted, asideVars, items, signal, signalWaitInterval, queueCounter,
                   rrVars, item, stop, waitWith, producerVars, dtorVars,
                   historyVars>>

\* What front() and pop_front() on an empty deque can do: the thread goes on
\* with what the slot before the deque's storage held, or it faults.
FrontOfEmpty == {"stale", "fault"}

\* item = items.front(); items.pop_front(); } and the lock's scope ends.
\* Nothing is tested under the lock: where another consumer has emptied the
\* deque since the test, front() and pop_front() have undefined behaviour.
BP_Extract(c) ==
    /\ IsBasicThread(c)
    /\ pc[c] = "locked"
    /\ items_mutex' = [items_mutex EXCEPT ![0] = Free]
    /\ IF items[0] # <<>>
          THEN /\ item' = [item EXCEPT ![c] = Head(items[0])]
               /\ items' = [items EXCEPT ![0] = Tail(@)]
               /\ removed' = [removed EXCEPT ![0] = Append(@, Head(items[0]))]
               /\ delivered' = [delivered EXCEPT ![c] = Append(@, Head(items[0]))]
               /\ pc' = [pc EXCEPT ![c] = "callback"]
          ELSE \E o \in FrontOfEmpty :
                   /\ UNCHANGED items
                   /\ IF o = "stale"
                         THEN /\ item' = [item EXCEPT ![c] = Destroyed]
                              /\ removed' = [removed EXCEPT ![0] = Append(@, Destroyed)]
                              /\ delivered' = [delivered EXCEPT ![c] = Append(@, Destroyed)]
                              /\ pc' = [pc EXCEPT ![c] = "callback"]
                         ELSE /\ pc' = [pc EXCEPT ![c] = "crashed"]
                              /\ UNCHANGED <<item, removed, delivered>>
    /\ UNCHANGED <<runVars, faulted, asideVars, signal, signalWaitInterval, queueCounter, rrVars,
                   stop, waitWith, producerVars, dtorVars, issued, appended, route>>

\* callback(item) ends, by returning or by an exception that catch (...) {}
\* discards, and the thread goes back to the loop test.
BP_CallbackReturns(c) ==
    /\ IsBasicThread(c)
    /\ pc[c] = "callback"
    /\ pc' = [pc EXCEPT ![c] = "loop"]
    /\ UNCHANGED <<runVars, faulted, asideVars, queueVars, rrVars, item, stop, waitWith,
                   producerVars, dtorVars, historyVars>>

\* The next step of thread c uses a member of the pool.
UsesMember(c) ==
    \/ pc[c] \in {"parked", "acquired", "lock", "locked", "callback"}
    \/ pc[c] = "loop" /\ ~stop[c]

\* A thread uses a member that has been destroyed.  The behaviour is
\* undefined: the steps above go on as if the member were there, this one
\* is the thread faulting.
BP_UseAfterRelease(c) ==
    /\ IsBasicThread(c)
    /\ Released
    /\ UsesMember(c)
    /\ pc' = [pc EXCEPT ![c] = "crashed"]
    /\ UNCHANGED <<runVars, faulted, asideVars, queueVars, rrVars, item, stop, waitWith,
                   producerVars, dtorVars, historyVars>>

\* ~basic_pool(): signalWaitInterval = std::chrono::milliseconds(0);
BP_DtorInterval ==
    /\ component = "basic_pool"
    /\ dpc = "none"
    /\ \A p \in Producers : ppc[p] = "idle"
    /\ signalWaitInterval' = [signalWaitInterval EXCEPT ![0] = ZeroInterval]
    /\ dpc' = "release"
    /\ UNCHANGED <<runVars, faulted, asideVars, items, items_mutex, signal, queueCounter, rrVars,
                   consumerVars, producerVars, didx, historyVars>>

\* ~basic_pool(): for (auto& t : workers) { signal.release();
BP_DtorRelease ==
    /\ component = "basic_pool"
    /\ dpc = "release"
    /\ signal' = [signal EXCEPT ![0] = @ + 1]
    /\ dpc' = "reqstop"
    /\ UNCHANGED <<runVars, faulted, asideVars, items, items_mutex, signalWaitInterval,
                   queueCounter, rrVars, consumerVars, producerVars, didx,
                   historyVars>>

\* ~basic_pool(): t.request_stop(); } and the loop moves to the next thread
\* without waiting for this one.
BP_DtorRequestStop ==
    /\ component = "basic_pool"
    /\ dpc = "reqstop"
    /\ stop' = [stop EXCEPT ![didx] = TRUE]
    /\ didx' = didx + 1
    /\ dpc' = IF didx + 1 \in DOMAIN pc THEN "release" ELSE "members"
    /\ UNCHANGED <<runVars, faulted, asideVars, queueVars, rrVars, pc, item, waitWith,
                   producerVars, historyVars>>

\* The destructor's body has ended: signalWaitInterval, items_mutex, items,
\* signal and callback are destroyed, in that order, and the destruction of
\* workers begins.
BP_DtorMembers ==
    /\ component = "basic_pool"
    /\ dpc = "members"
    /\ didx' = 0
    /\ dpc' = "joining"
    /\ UNCHANGED <<runVars, faulted, asideVars, queueVars, rrVars, consumerVars,
                   producerVars, historyVars>>

\* ~vector<jthread>: each std::jthread's destructor requests stop and joins.
BP_DtorJoin ==
    /\ component = "basic_pool"
    /\ dpc = "joining"
    /\ pc[didx] = "exited"
    /\ didx' = didx + 1
    /\ dpc' = IF didx + 1 \in DOMAIN pc THEN "joining" ELSE "done"
    /\ UNCHANGED <<runVars, faulted, asideVars, queueVars, rrVars, consumerVars, producerVars,
                   historyVars>>

BP_Producer(p) ==
    \/ BP_QueueLock(p)
    \/ BP_QueueEmplace(p)
    \/ BP_QueueRelease(p)

BP_Consumer(c) ==
    \/ BP_LoopTop(c)
    \/ BP_Acquire(c)
    \/ BP_Timeout(c)
    \/ BP_CheckEmpty(c)
    \/ BP_Lock(c)
    \/ BP_Extract(c)
    \/ BP_CallbackReturns(c)
    \/ BP_UseAfterRelease(c)

BP_Destructor ==
    \/ BP_DtorInterval
    \/ BP_DtorRelease
    \/ BP_DtorRequestStop
    \/ BP_DtorMembers
    \/ BP_DtorJoin

\* A basic_pool from construction to the end of its destruction.
NextBasicPool ==
    \/ \E p \in Producers : BP_QueueCall(p) \/ BP_Producer(p)
    \/ \E c \in Workers : BP_Consumer(c)
    \/ BP_Destructor

InitBasicPool == \E f \in Producers : Constructed("basic_pool", f)

SpecBasicPool == InitBasicPool /\ [][NextBasicPool]_vars

\* =================================================== roundrobin_pool
\* nextWorkerIndex computed from the counter value before the increment.
nextWorkerIndex_PreIncrement ==
    IF workersSize = 0 THEN 0 ELSE (rr_queueCounter - 1) % workersSize

\* roundrobin_pool::nextWorkerIndex()
nextWorkerIndex ==
    IF workersSize = 0 THEN 0 ELSE rr_queueCounter % workersSize

\* roundrobin_pool::queue(): ++queueCounter;  (an atomic increment)
\* The call's item is numbered by the order of the increments.
RR_Increment(p) ==
    /\ component = "roundrobin_pool"
    /\ p <= feeders
    /\ dpc = "none"
    /\ ppc[p] = "idle"
    /\ issued < backlog + MaxItems
    /\ rr_queueCounter' = rr_queueCounter + 1
    /\ issued' = issued + 1
    /\ pitem' = [pitem EXCEPT ![p] = issued + 1]
    /\ ppc' = [ppc EXCEPT ![p] = "route"]
    /\ UNCHANGED <<runVars, faulted, asideVars, queueVars, workersSize, consumerVars, pidx,
                   dtorVars, appended, removed, delivered, route>>

\* roundrobin_pool::queue(): workers.at(nextWorkerIndex()).queue(std::move(item));
\* nextWorkerIndex() loads the counter again; at() throws std::out_of_range
\* for an index outside the vector, and queue() then ends with that exception.
RR_Route(p) ==
    /\ component = "roundrobin_pool"
    /\ ppc[p] = "route"
    /\ IF nextWorkerIndex \in DOMAIN items
          THEN /\ pidx' = [pidx EXCEPT ![p] = nextWorkerIndex]
               /\ route' = Routed(pitem[p], nextWorkerIndex)
               /\ ppc' = [ppc EXCEPT ![p] = "lock"]
          ELSE /\ ppc' = [ppc EXCEPT ![p] = "thrown"]
               /\ UNCHANGED <<pidx, route>>
    /\ UNCHANGED <<runVars, faulted, asideVars, queueVars, rrVars, consumerVars, pitem, dtorVars,
                   issued, appended, removed, delivered>>

\* A roundrobin_pool that is never destroyed.
NextRRRun ==
    \/ \E p \in Producers : RR_Increment(p) \/ RR_Route(p) \/ SW_Producer(p)
    \/ \E c \in Workers : SW_Consumer(c)
    \/ \E c \in Workers : \E p \in Producers : SW_RacePopFront(c, p)

\* A roundrobin_pool from construction to the end of its destruction.
NextRR == NextRRRun \/ SW_Destructor

InitRR == \E f \in Producers : Constructed("roundrobin_pool", f)

SpecRR == InitRR /\ [][NextRR]_vars

\* The values std::thread::hardware_concurrency() can report, 0 standing for
\* "not computable".
HardwareConcurrency == 0 .. NumWorkers

\* A roundrobin_pool<T, 0> right after construction: its worker count is what
\* hardware_concurrency() reported, and workersSize = workers.size().
InitRRHardware ==
    \E n \in HardwareConcurrency :
        /\ EngineOf("roundrobin_pool", NumProducers, 0,
                    0 .. (n - 1), 0 .. (n - 1))
        /\ PeriodicAt(ZeroInterval)
        /\ ResourceAt
        /\ DeferAt

SpecRRHardware == InitRRHardware /\ [][NextRR]_vars

\* =================================================== periodic_worker
IsPeriodic == component = "periodic_worker"

\* while (!st.stop_requested()) ... signal.try_acquire_for(invokePeriod): the
\* loop test, and the wait beginning with the period read at that moment.
PW_LoopTop ==
    /\ IsPeriodic
    /\ pc[0] = "loop"
    /\ IF stop[0]
          THEN /\ pc' = [pc EXCEPT ![0] = "exited"]
               /\ UNCHANGED waitWith
          ELSE /\ pc' = [pc EXCEPT ![0] = "parked"]
               /\ waitWith' = [waitWith EXCEPT ![0] = invokePeriod]
    /\ UNCHANGED <<runVars, deferVars, faulted, periodicVars, resourceVars,
                   resourceHistory, queueVars, rrVars, item, stop,
                   producerVars, dtorVars, historyVars>>

\* The wait can end while the thread has invocations left in this run, or
\* once a stop has been requested.
PW_WaitMayEnd == invoked < MaxTicks \/ stop[0]

\* try_acquire_for returns true: the counter was positive and is decremented.
\* The result is discarded.
PW_WaitSignalled ==
    /\ IsPeriodic
    /\ pc[0] = "parked"
    /\ PW_WaitMayEnd
    /\ signal[0] > 0
    /\ signal' = [signal EXCEPT ![0] = @ - 1]
    /\ pc' = [pc EXCEPT ![0] = "stopcheck"]
    /\ UNCHANGED <<runVars, deferVars, faulted, periodicVars, resourceVars,
                   resourceHistory, items, items_mutex, signalWaitInterval,
                   queueCounter, rrVars, item, stop, waitWith, producerVars,
                   dtorVars, historyVars>>

\* try_acquire_for returns false: the period ran out with the counter at 0.
\* The result is discarded.
PW_WaitTimedOut ==
    /\ IsPeriodic
    /\ pc[0] = "parked"
    /\ PW_WaitMayEnd
    /\ signal[0] = 0
    /\ pc' = [pc EXCEPT ![0] = "stopcheck"]
    /\ UNCHANGED <<runVars, deferVars, faulted, periodicVars, resourceVars,
                   resourceHistory, queueVars, rrVars, item, stop, waitWith,
                   producerVars, dtorVars, historyVars>>

\* A loop body that invokes the callback without testing the stop token after
\* the wait: what the code does not do.
PW_StopCheck_IgnoresStop ==
    /\ IsPeriodic
    /\ pc[0] = "stopcheck"
    /\ pc' = [pc EXCEPT ![0] = "callback"]
    /\ invoked' = invoked + 1
    /\ UNCHANGED <<runVars, deferVars, faulted, invokePeriod, invokeCounter,
                   resourceVars, resourceHistory, queueVars, rrVars, item,
                   stop, waitWith, producerVars, dtorVars, historyVars>>

\* if (!st.stop_requested()) { callback(); ...
PW_StopCheck ==
    /\ IsPeriodic
    /\ pc[0] = "stopcheck"
    /\ IF stop[0]
          THEN /\ pc' = [pc EXCEPT ![0] = "loop"]
               /\ UNCHANGED invoked
          ELSE /\ pc' = [pc EXCEPT ![0] = "callback"]
               /\ invoked' = invoked + 1
    /\ UNCHANGED <<runVars, deferVars, faulted, invokePeriod, invokeCounter,
                   resourceVars, resourceHistory, queueVars, rrVars, item,
                   stop, waitWith, producerVars, dtorVars, historyVars>>

\* callback() returns; invokeCounter++; and the loop goes round.
PW_CallbackReturns ==
    /\ IsPeriodic
    /\ pc[0] = "callback"
    /\ invokeCounter' = invokeCounter + 1
    /\ pc' = [pc EXCEPT ![0] = "loop"]
    /\ UNCHANGED <<runVars, deferVars, faulted, invokePeriod, invoked, resourceVars,
                   resourceHistory, queueVars, rrVars, item, stop, waitWith,
                   producerVars, dtorVars, historyVars>>

\* callback() throws: control goes to catch (...) {} past invokeCounter++,
\* and the loop goes round.
PW_CallbackThrows ==
    /\ IsPeriodic
    /\ pc[0] = "callback"
    /\ faulted' = faulted \cup {invoked}
    /\ pc' = [pc EXCEPT ![0] = "loop"]
    /\ UNCHANGED <<runVars, deferVars, periodicVars, resourceVars, resourceHistory,
                   queueVars, rrVars, item, stop, waitWith, producerVars,
                   dtorVars, historyVars>>

\* ~periodic_worker(): invokePeriod = std::chrono::milliseconds(0);
PW_DtorInterval ==
    /\ IsPeriodic
    /\ dpc = "none"
    /\ invokePeriod' = ZeroInterval
    /\ dpc' = "release"
    /\ UNCHANGED <<runVars, deferVars, faulted, invokeCounter, invoked, resourceVars,
                   resourceHistory, queueVars, rrVars, consumerVars,
                   producerVars, didx, historyVars>>

\* ~periodic_worker(): signal.release();
PW_DtorRelease ==
    /\ IsPeriodic
    /\ dpc = "release"
    /\ signal' = [signal EXCEPT ![0] = @ + 1]
    /\ dpc' = "reqstop"
    /\ UNCHANGED <<runVars, deferVars, faulted, periodicVars, resourceVars,
                   resourceHistory, items, items_mutex, signalWaitInterval,
                   queueCounter, rrVars, consumerVars, producerVars, didx,
                   historyVars>>

\* ~periodic_worker(): processor.request_stop()
PW_DtorRequestStop ==
    /\ IsPeriodic
    /\ dpc = "reqstop"
    /\ stop' = [stop EXCEPT ![0] = TRUE]
    /\ dpc' = "join"
    /\ UNCHANGED <<runVars, deferVars, faulted, periodicVars, resourceVars,
                   resourceHistory, queueVars, rrVars, pc, item, waitWith,
                   producerVars, didx, historyVars>>

\* ~periodic_worker(): processor.join() returns once the thread has ended.
PW_DtorJoin ==
    /\ IsPeriodic
    /\ dpc = "join"
    /\ pc[0] = "exited"
    /\ dpc' = "done"
    /\ UNCHANGED <<runVars, deferVars, faulted, periodicVars, resourceVars,
                   resourceHistory, queueVars, rrVars, consumerVars,
                   producerVars, didx, historyVars>>

\* The steps of the processor thread outside the callback.
PW_Loop ==
    \/ PW_LoopTop
    \/ PW_WaitSignalled
    \/ PW_WaitTimedOut
    \/ PW_StopCheck

PW_Callback == PW_CallbackReturns \/ PW_CallbackThrows

PW_Destructor ==
    \/ PW_DtorInterval
    \/ PW_DtorRelease
    \/ PW_DtorRequestStop
    \/ PW_DtorJoin

\* A periodic_worker that is never destroyed.
NextPeriodicRun == PW_Loop \/ PW_Callback

\* A periodic_worker from construction to the end of its destructor.
NextPeriodic == NextPeriodicRun \/ PW_Destructor

SpecPeriodic == InitPeriodic /\ [][NextPeriodic]_vars

\* ===================================================== resource_pool
IsResource == component = "resource_pool"

\* What reading a T through a reference can give after the element it names
\* has been destroyed by pop_front(): the old contents if the storage still
\* holds them, or the remains of the destroyed element.
DanglingRead(x) == {x, Destroyed}

\* std::lock_guard<std::recursive_mutex> l(_poolLock): taken by thread t.
Locked(t) == <<t, _poolLock[2] + 1>>
\* Unlocked for a mutex that one unlock() frees however often its owner has
\* locked it.
Unlocked_AtOnce(t) == Unowned

\* The lock_guard of thread t goes out of scope.
Unlocked(t) == IF _poolLock[2] = 1 THEN Unowned ELSE <<t, _poolLock[2] - 1>>
\* Thread t can take the recursive mutex.
CanLock(t) == _poolLock[1] \in {NoClient, t}

\* A client calls checkin() with a resource it has just created.
RP_CheckinNewCall(t) ==
    /\ IsResource
    /\ dpc = "none"
    /\ cpc[t] = "idle"
    /\ ops < MaxOps
    /\ created < MaxResources
    /\ created' = created + 1
    /\ ops' = ops + 1
    /\ carg' = [carg EXCEPT ![t] = created + 1]
    /\ pairOf' = [pairOf EXCEPT ![t] = NoPair]
    /\ cpc' = [cpc EXCEPT ![t] = "ci_lock"]
    /\ UNCHANGED <<runVars, deferVars, faulted, periodicVars, queueVars, rrVars,
                   consumerVars, producerVars, dtorVars, historyVars,
                   _pool, _poolLock, cref, cheld, cresult, checkins,
                   checkouts, stored, handed, received, lastOp>>

\* A checkin() of something held of which the caller keeps a usable copy:
\* what checkin(T&&) with std::move does not leave behind.
RP_CheckinHeldCall_KeepsCopy(t) ==
    /\ IsResource
    /\ dpc = "none"
    /\ cpc[t] = "idle"
    /\ ops < MaxOps
    /\ \E x \in cheld[t] : carg' = [carg EXCEPT ![t] = x]
    /\ ops' = ops + 1
    /\ pairOf' = [pairOf EXCEPT ![t] = NoPair]
    /\ cpc' = [cpc EXCEPT ![t] = "ci_lock"]
    /\ UNCHANGED <<runVars, deferVars, faulted, periodicVars, queueVars, rrVars,
                   consumerVars, producerVars, dtorVars, historyVars,
                   _pool, _poolLock, cref, cheld, cresult, created, checkins,
                   checkouts, stored, handed, received, lastOp>>

\* A client calls checkin() with something it got from checkout().
RP_CheckinHeldCall(t) ==
    /\ IsResource
    /\ dpc = "none"
    /\ cpc[t] = "idle"
    /\ ops < MaxOps
    /\ \E x \in cheld[t] :
           /\ carg' = [carg EXCEPT ![t] = x]
           /\ cheld' = [cheld EXCEPT ![t] = @ \ {x}]
    /\ ops' = ops + 1
    /\ pairOf' = [pairOf EXCEPT ![t] = NoPair]
    /\ cpc' = [cpc EXCEPT ![t] = "ci_lock"]
    /\ UNCHANGED <<runVars, deferVars, faulted, periodicVars, queueVars, rrVars,
                   consumerVars, producerVars, dtorVars, historyVars,
                   _pool, _poolLock, cref, cresult, created, checkins,
                   checkouts, stored, handed, received, lastOp>>

\* checkin(): std::lock_guard<std::recursive_mutex> l(_poolLock);
RP_CheckinLock(t) ==
    /\ IsResource
    /\ cpc[t] = "ci_lock"
    /\ CanLock(t)
    /\ _poolLock' = Locked(t)
    /\ cpc' = [cpc EXCEPT ![t] = "ci_locked"]
    /\ UNCHANGED <<runVars, deferVars, faulted, periodicVars, queueVars, rrVars,
                   consumerVars, producerVars, dtorVars, historyVars,
                   _pool, carg, cref, cheld, cresult, resourceHistory>>

\* checkin(): _pool.push_back(std::move(rsrc)); the lock is released and
\* checkin() returns.
RP_CheckinBody(t) ==
    /\ IsResource
    /\ cpc[t] = "ci_locked"
    /\ _pool' = Append(_pool, carg[t])
    /\ _poolLock' = Unlocked(t)
    /\ checkins' = checkins + 1
    /\ stored' = Append(stored, carg[t])
    /\ lastOp' = <<t, "checkin", carg[t], Len(_pool)>>
    /\ pairOf' = [pairOf EXCEPT ![t] =
                     IF lastOp[1] = t /\ lastOp[2] = "checkout"
                        THEN <<"out-in", carg[t], lastOp[4], Len(_pool) + 1>>
                        ELSE NoPair]
    /\ cresult' = [cresult EXCEPT ![t] = <<"stored", carg[t]>>]
    /\ carg' = [carg EXCEPT ![t] = NoItem]
    /\ cpc' = [cpc EXCEPT ![t] = "idle"]
    /\ UNCHANGED <<runVars, deferVars, faulted, periodicVars, queueVars, rrVars,
                   consumerVars, producerVars, dtorVars, historyVars,
                   cref, cheld, created, ops, checkouts, handed, received>>

\* A client calls checkout().
RP_CheckoutCall(t) ==
    /\ IsResource
    /\ dpc = "none"
    /\ cpc[t] = "idle"
    /\ ops < MaxOps
    /\ ops' = ops + 1
    /\ pairOf' = [pairOf EXCEPT ![t] = NoPair]
    /\ cpc' = [cpc EXCEPT ![t] = "co_lock"]
    /\ UNCHANGED <<runVars, deferVars, faulted, periodicVars, queueVars, rrVars,
                   consumerVars, producerVars, dtorVars, historyVars,
                   _pool, _poolLock, carg, cref, cheld, cresult, created, checkins, checkouts, stored,
                   handed, received, lastOp>>

\* checkout(): std::lock_guard<std::recursive_mutex> l(_poolLock);
RP_CheckoutLock(t) ==
    /\ IsResource
    /\ cpc[t] = "co_lock"
    /\ CanLock(t)
    /\ _poolLock' = Locked(t)
    /\ cpc' = [cpc EXCEPT ![t] = "co_locked"]
    /\ UNCHANGED <<runVars, deferVars, faulted, periodicVars, queueVars, rrVars,
                   consumerVars, producerVars, dtorVars, historyVars,
                   _pool, carg, cref, cheld, cresult, resourceHistory>>

\* A checkout() whose front slot is not removed when the call ends: what the
\* code would do without the scope guard.
RP_CheckoutBody_KeepsSlot(t) ==
    /\ IsResource
    /\ cpc[t] = "co_locked"
    /\ _poolLock' = Unlocked(t)
    /\ IF _pool # <<>>
          THEN /\ cref' = [cref EXCEPT ![t] = <<Head(_pool), checkouts + 1>>]
               /\ checkouts' = checkouts + 1
               /\ handed' = Append(handed, Head(_pool))
               /\ received' = Append(received, NoItem)
               /\ lastOp' = <<t, "checkout", Head(_pool), Len(_pool)>>
               /\ cpc' = [cpc EXCEPT ![t] = "co_returned"]
               /\ UNCHANGED <<_pool, cresult>>
          ELSE /\ cresult' = [cresult EXCEPT ![t] = <<"threw", 0>>]
               /\ lastOp' = <<t, "empty", NoItem, 0>>
               /\ cpc' = [cpc EXCEPT ![t] = "idle"]
               /\ UNCHANGED <<_pool, cref, checkouts, handed, received>>
    /\ pairOf' = [pairOf EXCEPT ![t] = NoPair]
    /\ UNCHANGED <<runVars, deferVars, faulted, periodicVars, queueVars, rrVars,
                   consumerVars, producerVars, dtorVars, historyVars,
                   carg, cheld, created, ops, checkins, stored>>

\* A checkout() that waits under the lock for an item instead of throwing:
\* what the code does not do.
RP_CheckoutBody_WaitsForItem(t) ==
    /\ IsResource
    /\ cpc[t] = "co_locked"
    /\ _pool # <<>>
    /\ _poolLock' = Unlocked(t)
    /\ cref' = [cref EXCEPT ![t] = <<Head(_pool), checkouts + 1>>]
    /\ _pool' = Tail(_pool)
    /\ checkouts' = checkouts + 1
    /\ handed' = Append(handed, Head(_pool))
    /\ received' = Append(received, NoItem)
    /\ lastOp' = <<t, "checkout", Head(_pool), Len(_pool)>>
    /\ pairOf' = [pairOf EXCEPT ![t] = NoPair]
    /\ cpc' = [cpc EXCEPT ![t] = "co_returned"]
    /\ UNCHANGED <<runVars, deferVars, faulted, periodicVars, queueVars, rrVars,
                   consumerVars, producerVars, dtorVars, historyVars,
                   carg, cheld, cresult, created, ops, checkins, stored>>

\* checkout() under the lock.  With an item in the pool: the T&& to return is
\* bound to _pool.front(); leaving the scope runs roe's _pool.pop_front(),
\* which destroys the element and removes the slot, then releases the lock;
\* checkout() returns the reference.  With no item: the lock is released and
\* std::runtime_error("Empty pool; add something first!") is thrown.
RP_CheckoutBody(t) ==
    /\ IsResource
    /\ cpc[t] = "co_locked"
    /\ _poolLock' = Unlocked(t)
    /\ IF _pool # <<>>
          THEN /\ cref' = [cref EXCEPT ![t] = <<Head(_pool), checkouts + 1>>]
               /\ _pool' = Tail(_pool)
               /\ checkouts' = checkouts + 1
               /\ handed' = Append(handed, Head(_pool))
               /\ received' = Append(received, NoItem)
               /\ lastOp' = <<t, "checkout", Head(_pool), Len(_pool)>>
               /\ pairOf' = [pairOf EXCEPT ![t] =
                                IF lastOp[1] = t /\ lastOp[2] = "checkin"
                                   THEN <<"in-out", lastOp[3], lastOp[4],
                                          Len(_pool) - 1>>
                                   ELSE NoPair]
               /\ cpc' = [cpc EXCEPT ![t] = "co_returned"]
               /\ UNCHANGED cresult
          ELSE /\ cresult' = [cresult EXCEPT ![t] = <<"threw", 0>>]
               /\ lastOp' = <<t, "empty", NoItem, 0>>
               /\ cpc' = [cpc EXCEPT ![t] = "idle"]
               /\ UNCHANGED <<_pool, cref, checkouts, handed, received, pairOf>>
    /\ UNCHANGED <<runVars, deferVars, faulted, periodicVars, queueVars, rrVars,
                   consumerVars, producerVars, dtorVars, historyVars,
                   carg, cheld, created, ops, checkins, stored>>

\* The caller makes its own T from the T&& that checkout() returned, after
\* the slot has been destroyed and outside the lock.
RP_CheckoutTake(t) ==
    /\ IsResource
    /\ cpc[t] = "co_returned"
    /\ \E v \in DanglingRead(cref[t][1]) :
           /\ cheld' = [cheld EXCEPT ![t] = @ \cup {v}]
           /\ cresult' = [cresult EXCEPT ![t] = <<"item", v>>]
           /\ received' = [received EXCEPT ![cref[t][2]] = v]
    /\ cref' = [cref EXCEPT ![t] = <<NoItem, 0>>]
    /\ cpc' = [cpc EXCEPT ![t] = "idle"]
    /\ UNCHANGED <<runVars, deferVars, faulted, periodicVars, queueVars, rrVars,
                   consumerVars, producerVars, dtorVars, historyVars,
                   _pool, _poolLock, carg, created, ops, checkins, checkouts,
                   stored, handed, lastOp, pairOf>>

\* A client calls getCapacity().
RP_CapacityCall(t) ==
    /\ IsResource
    /\ dpc = "none"
    /\ cpc[t] = "idle"
    /\ ops < MaxOps
    /\ ops' = ops + 1
    /\ pairOf' = [pairOf EXCEPT ![t] = NoPair]
    /\ cpc' = [cpc EXCEPT ![t] = "cap_lock"]
    /\ UNCHANGED <<runVars, deferVars, faulted, periodicVars, queueVars, rrVars,
                   consumerVars, producerVars, dtorVars, historyVars,
                   _pool, _poolLock, carg, cref, cheld, cresult, created, checkins, checkouts, stored,
                   handed, received, lastOp>>

\* getCapacity(): std::lock_guard<std::recursive_mutex> l(_poolLock);
RP_CapacityLock(t) ==
    /\ IsResource
    /\ cpc[t] = "cap_lock"
    /\ CanLock(t)
    /\ _poolLock' = Locked(t)
    /\ cpc' = [cpc EXCEPT ![t] = "cap_locked"]
    /\ UNCHANGED <<runVars, deferVars, faulted, periodicVars, queueVars, rrVars,
                   consumerVars, producerVars, dtorVars, historyVars,
                   _pool, carg, cref, cheld, cresult, resourceHistory>>

\* getCapacity(): if (... !_pool.empty()) return _pool.size(); return size_t(0);
RP_CapacityBody(t) ==
    /\ IsResource
    /\ cpc[t] = "cap_locked"
    /\ _poolLock' = Unlocked(t)
    /\ cresult' = [cresult EXCEPT ![t] =
                      <<"size", IF _pool # <<>> THEN Len(_pool) ELSE 0>>]
    /\ lastOp' = <<t, "size", NoItem, Len(_pool)>>
    /\ cpc' = [cpc EXCEPT ![t] = "idle"]
    /\ UNCHANGED <<runVars, deferVars, faulted, periodicVars, queueVars, rrVars,
                   consumerVars, producerVars, dtorVars, historyVars,
                   _pool, carg, cref, cheld, created, ops, checkins,
                   checkouts, stored, handed, received, pairOf>>

\* ~resource_pool(): under the lock, if (!_pool.empty()) _pool.clear();
\* The owner destroys the pool once no call on it is in progress.
RP_Destructor ==
    /\ IsResource
    /\ dpc = "none"
    /\ \A t \in Clients : cpc[t] = "idle"
    /\ _pool' = <<>>
    /\ dpc' = "done"
    /\ UNCHANGED <<runVars, deferVars, faulted, periodicVars, queueVars, rrVars,
                   consumerVars, producerVars, didx, historyVars,
                   _poolLock, cpc, carg, cref, cheld, cresult,
                   resourceHistory>>

\* The calls a client can begin.
RP_Call(t) ==
    \/ RP_CheckinNewCall(t)
    \/ RP_CheckinHeldCall(t)
    \/ RP_CheckoutCall(t)
    \/ RP_CapacityCall(t)

\* The steps of a client inside a call, and its use of what checkout() returned.
RP_Step(t) ==
    \/ RP_CheckinLock(t)
    \/ RP_CheckinBody(t)
    \/ RP_CheckoutLock(t)
    \/ RP_CheckoutBody(t)
    \/ RP_CheckoutTake(t)
    \/ RP_CapacityLock(t)
    \/ RP_CapacityBody(t)

NextResource ==
    \/ \E t \in Clients : RP_Call(t) \/ RP_Step(t)
    \/ RP_Destructor

SpecResource == InitResource /\ [][NextResource]_vars

\* ------------------------------------------- calls made under the lock
\* checkout() runs code of T while it holds the lock: _pool.pop_front()
\* destroys the front element.  A destructor of T that uses the pool enters
\* it on the thread that holds _poolLock.  Here it calls getCapacity().
RP_NestedCapacityCall(t) ==
    /\ IsResource
    /\ cpc[t] = "co_locked"
    /\ _pool # <<>>
    /\ ops < MaxOps
    /\ ops' = ops + 1
    /\ cpc' = [cpc EXCEPT ![t] = "co_cap_lock"]
    /\ UNCHANGED <<runVars, deferVars, faulted, periodicVars, queueVars, rrVars,
                   consumerVars, producerVars, dtorVars, historyVars,
                   _pool, _poolLock, carg, cref, cheld, cresult, created,
                   checkins, checkouts, stored, handed, received, lastOp,
                   pairOf>>

\* The nested getCapacity(): std::lock_guard<std::recursive_mutex> l(_poolLock);
RP_NestedCapacityLock(t) ==
    /\ IsResource
    /\ cpc[t] = "co_cap_lock"
    /\ CanLock(t)
    /\ _poolLock' = Locked(t)
    /\ cpc' = [cpc EXCEPT ![t] = "co_cap_locked"]
    /\ UNCHANGED <<runVars, deferVars, faulted, periodicVars, queueVars, rrVars,
                   consumerVars, producerVars, dtorVars, historyVars,
                   _pool, carg, cref, cheld, cresult, resourceHistory>>

\* The nested getCapacity() returns the size to the destructor that called
\* it; its lock_guard goes out of scope and checkout() goes on.
RP_NestedCapacityBody(t) ==
    /\ IsResource
    /\ cpc[t] = "co_cap_locked"
    /\ _poolLock' = Unlocked(t)
    /\ cpc' = [cpc EXCEPT ![t] = "co_locked"]
    /\ UNCHANGED <<runVars, deferVars, faulted, periodicVars, queueVars, rrVars,
                   consumerVars, producerVars, dtorVars, historyVars,
                   _pool, carg, cref, cheld, cresult, resourceHistory>>

RP_Nested(t) ==
    \/ RP_NestedCapacityCall(t)
    \/ RP_NestedCapacityLock(t)
    \/ RP_NestedCapacityBody(t)

\* A resource_pool of elements whose destructor may call back into the pool.
NextResourceReentrant ==
    \/ NextResource
    \/ \E t \in Clients : RP_Nested(t)

SpecResourceReentrant == InitResource /\ [][NextResourceReentrant]_vars

\* ============================================================= defer
IsDefer == component = "defer"

\* The defer object of the innermost scope that is still alive.
Innermost == dstack[Len(dstack)]

\* A defer object whose callback has not run and whose scope has not been left.
Declared == [ran |-> 0, left |-> "no"]

\* A block is entered and declares a defer: defer(Func&& f) stores the
\* callback and does not call it.
DF_Construct ==
    /\ IsDefer
    /\ dmode = "run"
    /\ Len(defers) < MaxDefers
    /\ defers' = Append(defers, Declared)
    /\ dstack' = Append(dstack, Len(defers) + 1)
    /\ UNCHANGED <<runVars, periodicVars, resourceVars, resourceHistory,
                   queueVars, rrVars, consumerVars, producerVars, dtorVars,
                   historyVars, faulted, dmode>>

\* Control reaches the closing brace of the innermost block: the objects of
\* the block are about to be destroyed.
DF_ScopeEnd ==
    /\ IsDefer
    /\ dmode = "run"
    /\ dstack # <<>>
    /\ defers' = [defers EXCEPT ![Innermost].left = "normal"]
    /\ dmode' = "leaving"
    /\ UNCHANGED <<runVars, periodicVars, resourceVars, resourceHistory,
                   queueVars, rrVars, consumerVars, producerVars, dtorVars,
                   historyVars, faulted, dstack>>

\* The code of the innermost block throws: the search for a handler begins.
DF_Throw ==
    /\ IsDefer
    /\ dmode = "run"
    /\ dstack # <<>>
    /\ dmode' = "thrown"
    /\ UNCHANGED <<runVars, periodicVars, resourceVars, resourceHistory,
                   queueVars, rrVars, consumerVars, producerVars, dtorVars,
                   historyVars, faulted, defers, dstack>>

\* The handler is outside the innermost block: the stack is unwound through
\* that block, whose objects are about to be destroyed.
DF_Unwind ==
    /\ IsDefer
    /\ dmode = "thrown"
    /\ dstack # <<>>
    /\ defers' = [defers EXCEPT ![Innermost].left = "exception"]
    /\ dmode' = "unwinding"
    /\ UNCHANGED <<runVars, periodicVars, resourceVars, resourceHistory,
                   queueVars, rrVars, consumerVars, producerVars, dtorVars,
                   historyVars, faulted, dstack>>

\* A destruction by stack unwinding that does not call the callback: what
\* ~defer() does not do.
DF_Destructor_NotOnUnwind ==
    /\ IsDefer
    /\ dmode \in {"leaving", "unwinding"}
    /\ defers' = [defers EXCEPT ![Innermost].ran =
                     IF dmode = "leaving" THEN @ + 1 ELSE @]
    /\ dstack' = SubSeq(dstack, 1, Len(dstack) - 1)
    /\ dmode' = IF dmode = "leaving" THEN "run" ELSE "thrown"
    /\ UNCHANGED <<runVars, periodicVars, resourceVars, resourceHistory,
                   queueVars, rrVars, consumerVars, producerVars, dtorVars,
                   historyVars, faulted>>

\* ~defer() { callback(); } of the innermost object, which then is no more;
\* after a normal exit the code after the block goes on, during unwinding the
\* search for a handler goes on.
DF_Destructor ==
    /\ IsDefer
    /\ dmode \in {"leaving", "unwinding"}
    /\ defers' = [defers EXCEPT ![Innermost].ran = @ + 1]
    /\ dstack' = SubSeq(dstack, 1, Len(dstack) - 1)
    /\ dmode' = IF dmode = "leaving" THEN "run" ELSE "thrown"
    /\ UNCHANGED <<runVars, periodicVars, resourceVars, resourceHistory,
                   queueVars, rrVars, consumerVars, producerVars, dtorVars,
                   historyVars, faulted>>

\* A handler of the block reached so far catches the exception and the code
\* after it goes on.
DF_Catch ==
    /\ IsDefer
    /\ dmode = "thrown"
    /\ dmode' = "run"
    /\ UNCHANGED <<runVars, periodicVars, resourceVars, resourceHistory,
                   queueVars, rrVars, consumerVars, producerVars, dtorVars,
                   historyVars, faulted, defers, dstack>>

NextDefer ==
    \/ DF_Construct
    \/ DF_ScopeEnd
    \/ DF_Throw
    \/ DF_Unwind
    \/ DF_Destructor
    \/ DF_Catch

SpecDefer == InitDefer /\ [][NextDefer]_vars

\* ================================================ whole specifications
\* The steps of the four threaded components, from construction to the end of
\* their destruction.
NextThreaded ==
    \/ \E p \in Producers : SW_QueueCall(p) \/ SP_QueueCall(p)
    \/ \E p \in Producers : RR_Increment(p) \/ RR_Route(p)
    \/ \E p \in Producers : SW_Producer(p) \/ SP_Producer(p)
    \/ \E c \in Workers : SW_Consumer(c) \/ SP_Consumer(c)
    \/ \E c \in Workers : \E p \in Producers : SW_RacePopFront(c, p)
    \/ SW_Destructor
    \/ SP_Destructor
    \/ NextPeriodic

\* Any component of the library but basic_pool, whose steps are
\* NextBasicPool.
Next == NextThreaded \/ NextResource \/ NextDefer

Spec == Init /\ [][Next]_vars

\* The scheduler runs every thread that can take a step: each producer
\* inside queue() goes on, each consumer thread goes on, and a callback that
\* was invoked returns.  Nothing is assumed about when callers call queue().
FairWorkers ==
    /\ \A p \in Producers : WF_vars(RR_Route(p) \/ SW_Producer(p))
    /\ \A c \in Workers : WF_vars(SW_Consumer(c))

FairPool ==
    /\ \A p \in Producers : WF_vars(SP_Producer(p))
    /\ \A c \in Workers : WF_vars(SP_Consumer(c))

\* As FairWorkers, but the callback of worker BlockedWorker need not return.
BlockedWorker == NumWorkers - 1

FairWorkersButOne ==
    /\ \A p \in Producers : WF_vars(RR_Route(p) \/ SW_Producer(p))
    /\ \A c \in Workers : WF_vars(SW_Loop(c))
    /\ \A c \in Workers \ {BlockedWorker} : WF_vars(SW_CallbackReturns(c))

\* As FairPool, but the callback of thread BlockedWorker need not return.
FairPoolButOne ==
    /\ \A p \in Producers : WF_vars(SP_Producer(p))
    /\ \A c \in Workers : WF_vars(SP_Loop(c))
    /\ \A c \in Workers \ {BlockedWorker} : WF_vars(SP_CallbackReturns(c))

FairPeriodic == WF_vars(PW_Loop \/ PW_Callback)

\* A Worker, a Shared-Queue Pool or a Periodic Task that is kept running,
\* with the items (ticks) on which the callback raises being recorded.
InitFaulty ==
    \/ \E comp \in {"simple_worker", "simple_pool"} :
           \E f \in Producers : Constructed(comp, f)
    \/ InitPeriodic

\* Components that are never destroyed, with callbacks that may throw.  No
\* destructor runs, so nothing releases the signal of a periodic_worker and
\* each of its waits ends by its timeout.
NextFaultyRun ==
    \/ NextWorkerRun
    \/ NextPoolRun
    \/ PW_LoopTop
    \/ PW_WaitTimedOut
    \/ PW_StopCheck
    \/ PW_Callback
    \/ \E c \in Workers : SW_CallbackThrows(c) \/ SP_CallbackThrows(c)

SpecFaultyLive ==
    InitFaulty /\ [][NextFaultyRun]_vars /\ FairWorkers /\ FairPool /\ FairPeriodic

\* Any of the four threaded components, from construction to the end of its
\* destruction.
InitThreaded ==
    \/ \E comp \in {"simple_worker", "simple_pool", "roundrobin_pool"} :
           \E f \in Producers : Constructed(comp, f)
    \/ InitPeriodic

\* The same with a single thread calling queue(): a destruction begins only
\* after the queue() calls have returned, whoever made them.
InitTeardown ==
    \/ \E comp \in {"simple_worker", "simple_pool", "roundrobin_pool"} :
           Constructed(comp, 1)
    \/ InitPeriodic

\* The thread that runs a destructor is scheduled like any other.
FairDestructor == WF_vars(SW_Destructor \/ SP_Destructor \/ PW_Destructor)

SpecThreaded == InitThreaded /\ [][NextThreaded]_vars

SpecTeardownLive ==
    /\ InitTeardown
    /\ [][NextThreaded]_vars
    /\ FairWorkers
    /\ FairPool
    /\ FairPeriodic
    /\ FairDestructor

\* A lone simple_worker or a periodic_worker, from construction to the end
\* of its destructor.
InitSingle == InitWorker \/ InitPeriodic

SpecSingle == InitSingle /\ [][NextWorker \/ NextPeriodic]_vars

SpecWorkerLive == InitWorker /\ [][NextWorkerRun]_vars /\ FairWorkers
SpecPoolLive == InitPool /\ [][NextPoolRun]_vars /\ FairPool
SpecPoolBlocked == InitPool /\ [][NextPoolRun]_vars /\ FairPoolButOne
SpecRRLive == InitRR /\ [][NextRRRun]_vars /\ FairWorkers
SpecRRBlocked == InitRR /\ [][NextRRRun]_vars /\ FairWorkersButOne

\* ------------------------------------------------------------ claims
AllDelivered == UNION {Range(delivered[c]) : c \in DOMAIN delivered}

\* C1: on a lone Worker that is kept running and whose callback always
\* returns, every item passed to queue() is eventually passed to the callback.
C1_EveryItemEventuallyDelivered ==
    \A i \in Items : (i \in DOMAIN route) ~> (i \in AllDelivered)

\* C2: on a lone Worker, with teardown included, no item is passed to the
\* callback more than once, and every item passed to it was enqueued.
C2_NoDuplicateNoInvented ==
    \A c \in DOMAIN delivered :
        /\ NoDuplicates(delivered[c])
        /\ Range(delivered[c]) \subseteq 1 .. issued

\* C4: within one queue the callback receives the items in exactly the order
\* in which their appends to that queue took place.
C4_DeliveredInAppendOrder ==
    \A c \in DOMAIN delivered : IsPrefix(delivered[c], appended[c])

RECURSIVE SumLen(_, _)
SumLen(f, S) ==
    IF S = {} THEN 0
    ELSE LET c == CHOOSE x \in S : TRUE IN Len(f[c]) + SumLen(f, S \ {c})

\* Number of callback invocations made so far.
TotalInvocations == SumLen(delivered, DOMAIN delivered)

\* Number of items routed to worker w so far.
RoutedTo(w) == Cardinality({i \in DOMAIN route : route[i] = w})

\* C3: a simple_pool that is kept running delivers every enqueued item, so the
\* number of callback invocations comes to equal the number of items enqueued,
\* and no item is handed to two invocations.
C3_PoolDeliversEachOnce ==
    /\ \A i \in Items : (i <= issued) ~> (i \in AllDelivered)
    /\ [](TotalInvocations = Cardinality(AllDelivered))
    /\ [](AllDelivered \subseteq 1 .. issued)

C3_Witness ==
    /\ component = "simple_pool"
    /\ feeders = NumProducers
    /\ issued = MaxItems
    /\ TotalInvocations = MaxItems
    /\ \A c \in DOMAIN delivered : delivered[c] # <<>>

\* C5: in a simple_pool the items leave the shared queue in the order in which
\* they were appended to it, whatever the consumers do.
C5_PoolRemovesInAppendOrder ==
    IsPrefix(removed[0], appended[0])

\* Two consumers: the one that removed the earlier item has not started its
\* callback yet, the one that removed the later item has.
C5_Witness ==
    /\ component = "simple_pool"
    /\ Len(removed[0]) >= 2
    /\ \E c1, c2 \in DOMAIN pc :
          /\ c1 # c2
          /\ pc[c1] = "stopcheck"
          /\ item[c1] = removed[0][1]
          /\ removed[0][2] \in Range(delivered[c2])

\* C6 as stated: with one producer, the k-th enqueued item (0-indexed; item
\* number k + 1) is routed to worker k mod N.
C6_RoutedByPreIncrement ==
    feeders = 1 =>
        \A i \in Items : i \in DOMAIN route => route[i] = (i - 1) % workersSize

\* C6 amended: with one producer, the k-th enqueued item (0-indexed) is routed
\* to worker (k + 1) mod N, whatever the workers have processed so far.
C6_RoutedByPostIncrement ==
    feeders = 1 =>
        \A i \in Items : i \in DOMAIN route => route[i] = i % workersSize

C6_Witness ==
    /\ component = "roundrobin_pool"
    /\ feeders = 1
    /\ \A i \in Items : i \in DOMAIN route
    /\ \E c \in DOMAIN delivered : delivered[c] = <<>>
    /\ \E c \in DOMAIN delivered : delivered[c] # <<>>

\* C7: with several producers each call is routed by the counter value its
\* own increment produced, so that once the calls made so far have returned
\* the numbers of items routed to any two workers differ by at most one.
C7_RoutedByOwnIncrement ==
    /\ \A i \in Items : i \in DOMAIN route => route[i] = i % workersSize
    /\ (\A p \in Producers : ppc[p] = "idle") =>
           \A v, w \in DOMAIN items :
               RoutedTo(v) - RoutedTo(w) <= 1

\* C8: a roundrobin_pool that is kept running delivers every enqueued item to
\* the callback, exactly once and by exactly one worker.
C8_RRDeliversEachOnce ==
    /\ \A i \in Items : (i <= issued) ~> (i \in AllDelivered)
    /\ [](TotalInvocations = Cardinality(AllDelivered))
    /\ [](AllDelivered \subseteq 1 .. issued)

\* Item i has been routed to a worker whose callback is not the blocked one.
RoutedToUnblocked(i) ==
    IF i \in DOMAIN route THEN route[i] # BlockedWorker ELSE FALSE

\* Item i has been passed to the callback of the worker it was routed to.
DeliveredByItsWorker(i) ==
    IF i \in DOMAIN route THEN i \in Range(delivered[route[i]]) ELSE FALSE

\* C9: if the callback of one worker never returns, queue() calls still
\* return and every item routed to another worker is still delivered.
C9_OtherWorkersUnaffected ==
    /\ \A p \in Producers : (ppc[p] # "idle") ~> (ppc[p] = "idle")
    /\ \A i \in Items : RoutedToUnblocked(i) ~> DeliveredByItsWorker(i)

\* The next step of producer p inside queue().
QueueStep(p) == RR_Route(p) \/ SW_Producer(p) \/ SP_Producer(p)

\* The consumer threads that take items from queue q.
ConsumersOf(q) == IF component = "simple_pool" THEN DOMAIN pc ELSE {q}

\* C10: no consumer thread holds the queue lock while it executes the
\* callback; while the consumers of a queue are inside the callback, a queue()
\* call on that queue can go on unless another producer holds the lock; and
\* the release at the end of queue() never has to wait.
C10_CallbackOutsideLock ==
    /\ \A c \in DOMAIN pc :
           pc[c] = "callback" => \A q \in DOMAIN items : items_mutex[q] # Consumer(c)
    /\ \A p \in Producers :
           (/\ ppc[p] \in {"lock", "locked", "release"}
            /\ \A c \in ConsumersOf(pidx[p]) : pc[c] = "callback")
               => \/ ENABLED QueueStep(p)
                  \/ \E r \in Producers \ {p} : items_mutex[pidx[p]] = Producer(r)
    /\ \A p \in Producers : ppc[p] = "release" => ENABLED QueueStep(p)

\* A producer is inside its critical section while a callback is running.
C10_Witness ==
    /\ component \in {"simple_worker", "simple_pool"}
    /\ \A c \in DOMAIN pc : pc[c] = "callback"
    /\ \E p \in Producers : ppc[p] = "locked"

\* The queue a consumer thread takes its items from.
QueueOf(c) == IF component = "simple_pool" THEN 0 ELSE c

\* C11: every mutation of a guarded queue is made by a thread that holds the
\* queue's lock: a producer about to emplace_back holds the lock of the queue
\* it appends to, and a consumer about to pop_front (in ~popOnDestruct of a
\* simple_worker, in getNextItem of a simple_pool) holds the lock of its queue.
C11_MutationUnderLock ==
    /\ \A p \in Producers :
           ppc[p] = "locked" => items_mutex[pidx[p]] = Producer(p)
    /\ \A c \in DOMAIN pc :
           pc[c] \in {"poddtor", "locked"} => items_mutex[QueueOf(c)] = Consumer(c)

\* Number of callback invocations that item i has been passed to.
Occurrences(i) ==
    SumLen([c \in DOMAIN delivered |-> SelectSeq(delivered[c], LAMBDA x : x = i)],
           DOMAIN delivered)

\* C12: when the callback raises on an item or on a tick, the consumer thread
\* does not end (a thread ends only after a stop request), the item is not
\* passed to the callback again, and the items queued and the ticks due
\* afterwards are still delivered.
C12_CallbackErrorsDiscarded ==
    /\ [](\A c \in DOMAIN pc : pc[c] = "exited" => stop[c])
    /\ [](~IsPeriodic => \A i \in faulted : Occurrences(i) = 1)
    /\ \A i \in Items :
           (~IsPeriodic /\ faulted # {} /\ i <= issued) ~> (i \in AllDelivered)
    /\ \A k \in 1 .. (MaxTicks - 1) :
           (IsPeriodic /\ k \in faulted) ~> (invoked > k)

\* C13: queue() on a Worker never waits for room, whatever the number of
\* pending items: once it holds the lock its append can be made, and its
\* release of the signal can be made; and the signal count never exceeds
\* the maximum the semaphore was declared with.
C13_SignalWithinMaximum ==
    /\ \A p \in Producers : ppc[p] = "locked" => ENABLED SW_QueueEmplace(p)
    /\ \A p \in Producers : ppc[p] = "release" => ENABLED SW_QueueRelease(p)
    /\ \A q \in DOMAIN signal : signal[q] <= LeastMaxValue

\* C14: once the destruction of a Worker, a Shared-Queue Pool, a Partitioned
\* Pool or a Periodic Task has begun, with or without items still queued, and
\* every callback invocation returns, the destruction comes to its end with
\* every thread of the component joined.
C14_TeardownTerminates ==
    (dpc # "none") ~> (dpc = "done" /\ \A c \in DOMAIN pc : pc[c] = "exited")

\* A destruction has ended with items left in a queue.
C14_Witness ==
    /\ dpc = "done"
    /\ \E q \in DOMAIN items : items[q] # <<>>

\* Running (0) until the destructor is entered, Draining (1) while it runs,
\* Stopped (2) once it has returned.
Stage(d) == IF d = "none" THEN 0 ELSE IF d = "done" THEN 2 ELSE 1

\* C15: when the destructor has returned every thread of the component has
\* ended; a thread that has ended takes no further step, so that no callback
\* invocation starts or is in progress afterwards; and the component moves
\* from Running to Draining to Stopped only, a stop request never being
\* withdrawn.
C15_StoppedForGood ==
    /\ [](dpc = "done" => \A c \in DOMAIN pc : pc[c] = "exited")
    /\ [][\A c \in DOMAIN pc :
              pc[c] = "exited" => (pc'[c] = "exited" /\ delivered'[c] = delivered[c])]_vars
    /\ [][pc[0] = "exited" => invoked' = invoked]_vars
    /\ [][Stage(dpc') >= Stage(dpc)]_vars
    /\ [][\A c \in DOMAIN stop : stop[c] => stop'[c]]_vars

\* A Shared-Queue Pool that made callback invocations has been destroyed.
C15_Witness ==
    /\ component = "simple_pool"
    /\ dpc = "done"
    /\ \A c \in DOMAIN delivered : delivered[c] # <<>>

\* C16: in the teardown of a Shared-Queue Pool, whenever the destructor is
\* joining a worker that is parked in a wait begun with the steady-state
\* interval, the signal holds a unit that ends that wait.
C16_JoinedWorkerIsWoken ==
    (/\ component = "simple_pool"
     /\ dpc = "join"
     /\ pc[didx] = "parked"
     /\ waitWith[didx] = SteadyInterval)
        => signal[0] > 0

\* C17: a checkout() that runs while the Resource Pool holds no item does
\* not wait for one: once it holds the lock its step can be taken, and that
\* step ends the call with the error raised to the caller, hands the caller
\* no item and leaves the pool as it was, still empty.
C17_EmptyCheckoutFails ==
    /\ [](\A t \in Clients : cpc[t] = "co_locked" => ENABLED RP_CheckoutBody(t))
    /\ [][\A t \in Clients :
              (cpc[t] = "co_locked" /\ _pool = <<>> /\ cpc'[t] # "co_locked")
                  => /\ cpc'[t] = "idle"
                     /\ cresult'[t] = <<"threw", 0>>
                     /\ cheld'[t] = cheld[t]
                     /\ _pool' = <<>>
                     /\ checkouts' = checkouts]_vars

\* A checkout() has just failed on a pool that had held items before.
C17_Witness ==
    /\ IsResource
    /\ checkouts > 0
    /\ \E t \in Clients :
           cresult[t] = <<"threw", 0>> /\ lastOp = <<t, "empty", NoItem, 0>>

\* C18: when a client's checkin(x) is followed directly by its own
\* y = checkout(), no other call on the pool completing in between, the pool
\* has the size it had before the pair, and y is x (stated for the pool that
\* held nothing before the pair, where x is the only item that can come
\* back); and when a client's checkout() is followed directly by its own
\* checkin, the pool has the size it had before the pair.
C18_RoundTrip ==
    \A t \in Clients :
        /\ (pairOf[t][1] = "in-out" /\ cpc[t] = "idle")
               => /\ pairOf[t][4] = pairOf[t][3]
                  /\ pairOf[t][3] = 0 => cresult[t] = <<"item", pairOf[t][2]>>
        /\ pairOf[t][1] = "out-in" => pairOf[t][4] = pairOf[t][3]

\* C19: the Resource Pool is first in, first out.  The items stored are
\* those checked in and not yet handed out, in the order of their checkin, so
\* that a checkin has put its item behind all those stored and a checkout has
\* taken the one stored longest; and what the caller of the k-th successful
\* checkout() receives is the k-th item checked in.
C19_FirstInFirstOut ==
    IsResource =>
        /\ Len(handed) <= Len(stored)
        /\ handed = SubSeq(stored, 1, Len(handed))
        /\ dpc = "none" => _pool = SubSeq(stored, Len(handed) + 1, Len(stored))
        /\ \A k \in DOMAIN received :
               received[k] # NoItem => received[k] = stored[k]

\* C20: at every moment of the life of a Resource Pool the number of items
\* stored is the number of completed checkin calls less the number of
\* successful checkout calls, a failed checkout counting for nothing, and
\* every getCapacity() returns that number: 0 for a new pool.
C20_SizeIsCheckinsLessCheckouts ==
    /\ []((IsResource /\ dpc = "none") => Len(_pool) = checkins - checkouts)
    /\ [][\A t \in Clients :
              (cpc[t] = "cap_locked" /\ cpc'[t] = "idle")
                  => cresult'[t] = <<"size", checkins - checkouts>>]_vars

\* getCapacity() has returned a count above 0 after a successful checkout.
C20_Witness ==
    \E t \in Clients :
        /\ lastOp = <<t, "size", NoItem, cresult[t][2]>>
        /\ cresult[t][1] = "size"
        /\ cresult[t][2] > 0
        /\ checkouts > 0

\* The resources created for the pool.
Resources == 1 .. MaxResources

\* The client threads that have resource x in hand: holding it, passing it
\* to a checkin that has not stored it yet, or about to take it from the
\* reference a checkout returned.
HoldersOf(x) ==
    {t \in Clients : x \in cheld[t] \/ carg[t] = x \/ cref[t][1] = x}

\* The slots of the pool that store resource x.
SlotsOf(x) == {k \in DOMAIN _pool : _pool[k] = x}

AfterWait == IsPeriodic /\ pc[0] = "stopcheck"

\* C22: the processor thread of a Periodic Task is after a wait only by
\* having completed one, by timeout or by signal; leaving that point it
\* invokes the callback once if no stop has been requested and not at all
\* if one has; and the callback is invoked at no other point, so never
\* before the first wait has completed and never twice for one wait.
C22_OneInvocationPerWait ==
    /\ [][(AfterWait' /\ ~AfterWait) => pc[0] = "parked"]_vars
    /\ [][(AfterWait /\ ~AfterWait')
             => IF stop[0]
                   THEN invoked' = invoked /\ pc'[0] # "callback"
                   ELSE invoked' = invoked + 1 /\ pc'[0] = "callback"]_vars
    /\ [][(invoked' # invoked \/ (IsPeriodic /\ pc'[0] = "callback" /\ pc[0] # "callback"))
             => (AfterWait /\ ~stop[0] /\ invoked' = invoked + 1)]_vars

\* The first invocation is in progress, made after a wait that the release
\* of the destructor ended, before the stop was requested.
C22_Witness ==
    /\ IsPeriodic
    /\ invoked = 1
    /\ pc[0] = "callback"
    /\ dpc = "reqstop"
    /\ signal[0] = 0

\* C25: in a simple_worker and in a simple_pool, a consumer thread that has
\* taken an item out of the queue and comes to the test of the stop token
\* goes on to the callback and passes it that item, whether or not a stop
\* request has arrived since the extraction.
C25_ExtractedIsDelivered ==
    [][(component = "simple_worker" \/ component = "simple_pool") =>
          \A c \in DOMAIN pc :
              (pc[c] = "stopcheck" /\ pc'[c] # "stopcheck")
                  => (pc'[c] = "callback"
                      /\ delivered'[c] = Append(delivered[c], item[c]))]_vars

\* C27: in a simple_pool the front of the queue is read and removed only
\* while the queue holds an item, and what is removed is that front item; a
\* worker whose wait succeeded and which finds the queue empty under the
\* lock, as after the releases made by the destructor, takes nothing, leaves
\* the queue empty and goes back to the loop test without a callback.
C27_PoolNeverTakesFromEmpty ==
    /\ [][component = "simple_pool" =>
             (removed' # removed =>
                  /\ items[0] # <<>>
                  /\ removed'[0] = Append(removed[0], Head(items[0]))
                  /\ items'[0] = Tail(items[0]))]_vars
    /\ [][component = "simple_pool" =>
             \A c \in DOMAIN pc :
                 (pc[c] = "locked" /\ pc'[c] # "locked" /\ items[0] = <<>>)
                     => (/\ pc'[c] = "loop"
                         /\ items'[0] = <<>>
                         /\ item'[c] = NoItem
                         /\ delivered' = delivered)]_vars

\* A simple_pool that had items queued has been destroyed and every unit of
\* the signal has been acquired: the waits that acquired the units released
\* by the destructor found no item for them.
C27_Witness ==
    /\ component = "simple_pool"
    /\ dpc = "done"
    /\ signal[0] = 0
    /\ appended[0] # <<>>
    /\ Len(removed[0]) = Len(appended[0])

\* C29: a client that is about to make its own T from what checkout()
\* returned still holds the pool lock, and the slot the returned reference
\* names is still the front slot of the pool with the item in it: the item is
\* taken over before the slot is removed and before the lock is released.
C29_TakenBeforeRemoved ==
    \A t \in Clients :
        cpc[t] = "co_returned"
            => /\ _poolLock[1] = t
               /\ _pool # <<>>
               /\ Head(_pool) = cref[t][1]

\* The consumer threads of queue q whose wait has succeeded and whose
\* extraction from the queue is not yet complete.
Pending(q) ==
    {c \in ConsumersOf(q) :
        pc[c] \in {"acquired", "locked", "pod", "podlocked", "poddtor"}}

\* C30: until its destruction begins, a simple_worker or a simple_pool has a
\* signal count of 0 or more, and the count plus the number of consumers
\* between a successful wait and their extraction is at most the number of
\* items in the queue; so a consumer whose wait has just succeeded finds the
\* queue non-empty.
C30_SignalsNeverExceedItems ==
    (component \in {"simple_worker", "simple_pool"} /\ dpc = "none") =>
        /\ signal[0] >= 0
        /\ signal[0] + Cardinality(Pending(0)) <= Len(items[0])
        /\ \A c \in DOMAIN pc : pc[c] = "acquired" => items[0] # <<>>

\* C23: in a roundrobin_pool that was constructed with no worker, a queue()
\* call that has made its increment goes on by the index-0 route and ends
\* without an exception.
C23_ZeroWorkersQueueReturns ==
    (component = "roundrobin_pool" /\ workersSize = 0) =>
        \A p \in Producers :
            /\ ppc[p] # "thrown"
            /\ ppc[p] \in {"lock", "locked", "release"} => pidx[p] = 0

\* The defer objects that have been destroyed.
Gone == DOMAIN defers \ Range(dstack)

\* C24: the callback of a defer object has not run while the object is
\* alive, which it is until its scope has been left; once the object is
\* gone its scope has been left, by reaching the end of the block or by an
\* exception, and its callback has run once, in the one case as in the other.
C24_DeferRunsOnceAtScopeExit ==
    /\ \A k \in Range(dstack) : defers[k].ran = 0
    /\ \A k \in Gone :
           /\ defers[k].left \in {"normal", "exception"}
           /\ defers[k].ran = 1

\* One defer object is gone whose scope was left by an exception, another
\* whose scope was left at the end of its block.
C24_Witness ==
    /\ \E k \in Gone : defers[k].left = "exception"
    /\ \E k \in Gone : defers[k].left = "normal"

\* C26: in basic_pool a consumer that is about to execute front() and
\* pop_front() finds the queue non-empty, in every interleaving of the
\* consumers, the producers and the destructor's extra releases.
C26_BasicPoolNeverTakesFromEmpty ==
    component = "basic_pool" =>
        \A c \in DOMAIN pc : pc[c] = "locked" => items[0] # <<>>

\* C28: in basic_pool, once the queue, the lock, the signal and the callback
\* have been destroyed, every consumer thread has exited.
C28_ThreadsExitBeforeRelease ==
    Released => \A c \in DOMAIN pc : pc[c] = "exited"

\* The destructor of a lone simple_worker or of a periodic_worker has made
\* its one release and has not returned yet.
AfterDtorRelease ==
    /\ component \in {"simple_worker", "periodic_worker"}
    /\ dpc \in {"reqstop", "join"}

\* C31: in the teardown of a Worker or of a Periodic Task, after the
\* destructor's release the thread is never parked in a wait begun with the
\* steady-state interval while the signal count is zero: either the unit
\* that ends the wait is there, or the wait was begun with the zero interval.
C31_ReleaseWakesThread ==
    AfterDtorRelease =>
        \A c \in DOMAIN pc :
            (pc[c] = "parked" /\ waitWith[c] = SteadyInterval) => signal[c] > 0

\* The destructor of a Worker with an empty queue is joining the thread,
\* which is parked in a steady-state wait that the destructor's unit ends.
C31_Witness ==
    /\ component = "simple_worker"
    /\ dpc = "join"
    /\ pc[0] = "parked"
    /\ waitWith[0] = SteadyInterval
    /\ items[0] = <<>>
    /\ signal[0] = 1

\* C32 as first stated: once the destructor of a Periodic Task has collapsed
\* the interval and issued its wake-up release, no callback invocation is
\* made.
C32_NoInvocationAfterRelease ==
    [][(IsPeriodic /\ dpc \in {"reqstop", "join", "done"})
           => invoked' = invoked]_vars

\* C32: once the destructor of a Periodic Task has requested the stop, no
\* wait is followed by a callback invocation: the test of the stop token that
\* comes after each wait lets no invocation through.  The wake-up release is
\* issued before the stop is requested, and the wait it ends can be followed
\* by an invocation until then.
C32_NoInvocationAfterStopRequest ==
    [][(IsPeriodic /\ dpc \in {"join", "done"}) => invoked' = invoked]_vars

\* The thread has been woken by the destructor's release and is about to test
\* the stop token, which the destructor has set in the meantime.
C32_Witness ==
    /\ IsPeriodic
    /\ dpc = "join"
    /\ pc[0] = "stopcheck"
    /\ stop[0]
    /\ signal[0] = 0

\* C33: a thread that is in a callback invocation leaves it only by the
\* invocation coming to its end, after which the thread is back at its loop
\* test: no step of the teardown takes it out of the callback.  And while a
\* callback invocation is in progress the destructor of the component has
\* not returned, so that it never returns if the callback never does.
C33_CallbackNeverInterrupted ==
    /\ [][\A c \in DOMAIN pc :
              pc[c] = "callback" => pc'[c] \in {"callback", "loop"}]_vars
    /\ [](\A c \in DOMAIN pc : pc[c] = "callback" => dpc # "done")

\* The destructor of a Worker has requested the stop and is waiting in
\* join() while a callback invocation is in progress.
C33_Witness ==
    /\ component = "simple_worker"
    /\ dpc = "join"
    /\ stop[0]
    /\ pc[0] = "callback"

\* C34: in a simple_pool that is kept running and in which the callback of
\* one thread need never return, every item appended to the queue is
\* eventually handed to the callback, by that thread before it got stuck or
\* by one of the others.
C34_OthersStillDeliver ==
    \A i \in Items : (i \in Range(appended[0])) ~> (i \in AllDelivered)

\* The thread whose callback never returns is in it, and every other item
\* has been delivered by the remaining threads.
C34_Witness ==
    /\ component = "simple_pool"
    /\ pc[BlockedWorker] = "callback"
    /\ issued = MaxItems
    /\ delivered[BlockedWorker] = <<item[BlockedWorker]>>
    /\ AllDelivered = Items

\* How many lock_guards on _poolLock client t has alive.
GuardsOf(t) ==
    CASE cpc[t] \in {"ci_locked", "co_locked", "cap_locked", "co_cap_lock"} -> 1
      [] cpc[t] = "co_cap_locked" -> 2
      [] OTHER -> 0

\* C35: the lock of the Resource Pool is re-entrant.  A thread that holds
\* it and enters the pool again can take the lock, so that it does not
\* block on itself; the lock is owned by the one thread that has lock_guards
\* alive, as many times as it has them; and no other thread is inside a
\* critical section until that thread has released it as often as it took it.
C35_LockIsReentrant ==
    IsResource =>
        /\ \A t \in Clients : cpc[t] = "co_cap_lock" => CanLock(t)
        /\ \A t \in Clients : GuardsOf(t) > 0 => _poolLock = <<t, GuardsOf(t)>>
        /\ (\A t \in Clients : GuardsOf(t) = 0) => _poolLock = Unowned

\* A thread holds the lock twice, inside a getCapacity() called from inside
\* its checkout(), while another thread waits to enter the pool.
C35_Witness ==
    \E t, u \in Clients :
        /\ t # u
        /\ cpc[t] = "co_cap_locked"
        /\ _poolLock = <<t, 2>>
        /\ cpc[u] \in {"ci_lock", "co_lock", "cap_lock"}

\* The callback invocations of the periodic_worker that have come to their
\* end, by returning or by raising.
InvocationsMade == IF pc[0] = "callback" THEN invoked - 1 ELSE invoked

\* C36: the invocation counter of a Periodic Task equals the number of
\* callback invocations made so far, those that raised an error included.
C36_CounterCountsInvocations ==
    IsPeriodic => invokeCounter = InvocationsMade

=============================================================================
